---- MODULE Spec2Model ----
(***************************************************************************)
(* The IR importer of rs_bindings_from_cc (importer.cc): the walk over a   *)
(* translation unit, the memoized lookups, the per-kind importers, the     *)
(* type mapper, the free-comment pass and the sorted emission of IR items. *)
(*                                                                         *)
(* The C++ frontend is an input.  The translation unit below is one header *)
(* a.h of the current target that includes a header b.h of another target; *)
(* the variable ast holds the facts of the unit that vary between inputs.  *)
(*                                                                         *)
(*   <built-in>  typedef char* __builtin_ms_va_list;            va1        *)
(*               typedef ...   __builtin_va_list;               va2        *)
(*   b.h         // cb                                                     *)
(*               struct B { int x; void bm(); };                B, B_x, bm *)
(*                          (int : 0 when ~ast.bfield_ok)                  *)
(*   a.h         // c1                                                     *)
(*               struct S;            (when ast.fwd)            S_fwd      *)
(*               // c2                                                     *)
(*               struct S {                                     S          *)
(*                 int f1; S* next;                             S_f1       *)
(*                          (long double f1 when ~ast.sfield_ok)           *)
(*                 // c3                                                   *)
(*                 void m(B* b);                                S_m        *)
(*                private: void p(long double);                 S_p        *)
(*                public: struct N { N(int); };                 S_N, N_ctor*)
(*               };                  (implicit S(), ~S())  S_ctor, S_dtor  *)
(*               void f(S* s);  void f(S* s);                   f, f_re    *)
(*               void del(long double) = delete;                del        *)
(*               typedef S ST;                                  ST         *)
(*               ST* g(B* b);                                   g          *)
(*               namespace ns { void h();                       ns, ns_h   *)
(*                 namespace inner { struct Q {}; } }           inner,in_Q *)
(*               union U { // c4                                U          *)
(*                 int a; };      (implicit U(const U&), U(U&&))           *)
(*                                                        U_copy, U_move   *)
(*               // c5                                                     *)
(*               void S::m(B* b) {}                             S_m_def    *)
(***************************************************************************)
EXTENDS Integers, Sequences, FiniteSets, TLC

VARIABLES
  ast,                \* the facts of the translation unit that vary
  run,                \* which Import run (each run is a fresh Importer)
  pc,                 \* "walk" | "done" | "aborted"
  stack,              \* the ImportDeclsFromDeclContext calls in progress
  lookup_cache_,      \* Importer::lookup_cache_
  known_type_decls_,  \* Importer::known_type_decls_
  items,              \* the sorted OrderedItem list of Import
  ir,                 \* invocation_.ir_.items
  import_count,       \* history: ImportDecl executions per declaration
  early_ref,          \* history: a type was converted before its declaration was looked up
  permuted,           \* history: the walker left the frontend's order
  first_items,        \* history: the OrderedItem list of the first run
  function_decl,      \* the function handed to ImportFunction on its own
  record_decl,        \* the record handed to ImportRecord on its own
  source_manager,     \* GetOwningTarget on its own: the files of the source manager
  decl_location,      \*   the file of decl->getLocation(), InvalidFile when invalid
  source_location,    \*   the file of the loop's source_location
  owning_target,      \*   the label returned, None before the return
  loop_rounds,        \*   history: the getIncludeLoc steps taken
  flags,              \* main on its own: --do_nothing, whether --ir_out is given
  ir_ok,              \*   whether IrFromCc returns an IR
  io_errors,          \*   which of open and write fails for each output path
  files_on_disk,      \*   what each output path holds
  exit_code           \*   None while main runs, then "0", "1" or "abort"

\* The state of GetOwningTarget run on its own.
owner == <<source_manager, decl_location, source_location, owning_target, loop_rounds>>

\* The inputs of the operations that are run on their own.
\* The state of main run on its own.
cli == <<flags, ir_ok, io_errors, files_on_disk, exit_code>>

inputs == <<function_decl, record_decl, owner, cli>>

vars == <<ast, run, pc, stack, lookup_cache_, known_type_decls_, items, ir,
          import_count, early_ref, permuted, first_items, inputs>>

(***************************************************************************)
(* Bounds of the model.                                                    *)
(***************************************************************************)
\* Import runs twice over the same translation unit.  The second run's
\* walker takes any of the first Window declarations not yet visited of a
\* context; the first run takes them in the frontend's order.
Window == 2
\* The iteration order of lookup_cache_ is the declaration order rotated by
\* a seed in 0..MaxHashSeed.
MaxHashSeed == 1
\* The lifetime oracle returns at most MaxLifetimes lifetimes for one type.
MaxLifetimes == 2
\* GetOwningTarget on its own starts at most MaxIncludeDepth files deep in
\* the include stack.
MaxIncludeDepth == 3

None == "none"
TU == "TU"

(***************************************************************************)
(* Files, include stack and the header-to-target map.                      *)
(***************************************************************************)
InvalidFile == "invalid"

\* name: the non-builtin filename, None for a built-in buffer;
\* included_from: the file holding the #include, InvalidFile for the main file.
FileTable ==
  [ main    |-> [name |-> "main.cc", dot_slash |-> FALSE, system |-> FALSE, included_from |-> InvalidFile],
    a_h     |-> [name |-> "a.h",   dot_slash |-> TRUE,  system |-> FALSE, included_from |-> "main"],
    b_h     |-> [name |-> "b.h",   dot_slash |-> FALSE, system |-> FALSE, included_from |-> "a_h"] ]

Files == DOMAIN FileTable

header_target == [ x \in {"a.h", "b.h"} |-> IF x = "a.h" THEN "//:a" ELSE "//:b" ]

target_ == "//:a"

entry_headers_ == <<"a.h">>

(***************************************************************************)
(* C++ types as the frontend gives them: a chain of levels, outermost      *)
(* first, ending in a leaf.                                                *)
(***************************************************************************)
Level(k, name, decl, bk, bits, signed, const) ==
  [k |-> k, name |-> name, decl |-> decl, bk |-> bk, bits |-> bits,
   signed |-> signed, const |-> const]

Ptr(t)  == <<Level("Pointer", "*", None, None, 0, FALSE, FALSE)>> \o t
LRef(t) == <<Level("LValueRef", "&", None, None, 0, FALSE, FALSE)>> \o t
IntT        == <<Level("Builtin", "int", None, "Int", 32, TRUE, FALSE)>>
CharT       == <<Level("Builtin", "char", None, "Int", 8, TRUE, FALSE)>>
VoidT       == <<Level("Builtin", "void", None, "Void", 0, FALSE, FALSE)>>
LongDoubleT == <<Level("Builtin", "long double", None, "Other", 128, FALSE, FALSE)>>
ArrayT      == <<Level("Other", "__va_list_tag[1]", None, None, 0, FALSE, FALSE)>>
TagT(d)     == <<Level("Tag", d, d, None, 0, FALSE, FALSE)>>
TypedefT(d) == <<Level("Typedef", d, d, None, 0, FALSE, FALSE)>>
RRefT(name) == <<Level("Other", name, None, None, 0, FALSE, FALSE)>>
Const(t)    == <<[t[1] EXCEPT !.const = TRUE]>> \o Tail(t)

(***************************************************************************)
(* The declarations of the translation unit.  Locations are positions in   *)
(* translation-unit order; 0 is the invalid location.                      *)
(***************************************************************************)
Toggles == [fwd : BOOLEAN, va2ok : BOOLEAN, sfield_ok : BOOLEAN, bfield_ok : BOOLEAN]

D(kind, ctx, b, e, loc, file, named, qname) ==
  [kind |-> kind, ctx |-> ctx, begin |-> b, end |-> e, loc |-> loc,
   file |-> file, named |-> named, qname |-> qname]

\* kind: the dyn_cast that succeeds in ImportDecl; ctx: getDeclContext().
DeclTable ==
  [ va1    |-> D("TypedefName", TU,      0,  0,  0, InvalidFile, TRUE, "__builtin_ms_va_list"),
    va2    |-> D("TypedefName", TU,      0,  0,  0, InvalidFile, TRUE, "__builtin_va_list"),
    B      |-> D("Record",      TU,     11, 17, 12, "b_h", TRUE, "B"),
    B_x    |-> D("Other",       "B",    13, 14, 14, "b_h", TRUE, "B::x"),
    bm     |-> D("Function",    "B",    15, 16, 16, "b_h", TRUE, "B::bm"),
    S_fwd  |-> D("Record",      TU,     21, 22, 22, "a_h", TRUE, "S"),
    S      |-> D("Record",      TU,     24, 41, 25, "a_h", TRUE, "S"),
    S_inj  |-> D("Record",      "S",    24, 25, 25, "a_h", TRUE, "S::S"),
    S_f1   |-> D("Other",       "S",    26, 27, 27, "a_h", TRUE, "S::f1"),
    S_next |-> D("Other",       "S",    28, 29, 29, "a_h", TRUE, "S::next"),
    S_m    |-> D("Function",    "S",    31, 33, 32, "a_h", TRUE, "S::m"),
    S_p    |-> D("Function",    "S",    34, 36, 35, "a_h", TRUE, "S::p"),
    S_N    |-> D("Record",      "S",    37, 39, 37, "a_h", TRUE, "S::N"),
    N_ctor |-> D("Function",    "S_N",  38, 38, 38, "a_h", TRUE, "S::N::N"),
    S_ctor |-> D("Function",    "S",    25, 25, 25, "a_h", TRUE, "S::S"),
    S_dtor |-> D("Function",    "S",    25, 25, 25, "a_h", TRUE, "S::~S"),
    f      |-> D("Function",    TU,     42, 44, 43, "a_h", TRUE, "f"),
    f_re   |-> D("Function",    TU,     45, 47, 46, "a_h", TRUE, "f"),
    del    |-> D("Function",    TU,     48, 50, 49, "a_h", TRUE, "del"),
    ST     |-> D("TypedefName", TU,     51, 52, 52, "a_h", TRUE, "ST"),
    g      |-> D("Function",    TU,     53, 55, 54, "a_h", TRUE, "g"),
    ns     |-> D("Namespace",   TU,     56, 63, 57, "a_h", TRUE, "ns"),
    ns_h   |-> D("Function",    "ns",   57, 58, 58, "a_h", TRUE, "ns::h"),
    inner  |-> D("Namespace",   "ns",   59, 62, 60, "a_h", TRUE, "ns::inner"),
    in_Q   |-> D("Record",      "inner", 60, 61, 61, "a_h", TRUE, "ns::inner::Q"),
    U      |-> D("Record",      TU,     64, 68, 65, "a_h", TRUE, "U"),
    U_a    |-> D("Other",       "U",    67, 67, 67, "a_h", TRUE, "U::a"),
    U_copy |-> D("Function",    "U",    65, 65, 65, "a_h", TRUE, "U::U"),
    U_move |-> D("Function",    "U",    65, 65, 65, "a_h", TRUE, "U::U"),
    S_m_def |-> D("Function",   "S",    70, 72, 71, "a_h", TRUE, "S::m") ]

DeclIds == DOMAIN DeclTable

\* Every declaration once, in a fixed order (the order of creation).
DeclOrder ==
  <<"va1", "va2", "B", "B_x", "bm", "S_fwd", "S", "S_inj", "S_f1", "S_next",
    "S_m", "S_p", "S_N", "N_ctor", "S_ctor", "S_dtor", "f", "f_re", "del", "ST",
    "g", "ns", "ns_h", "inner", "in_Q", "U", "U_a", "U_copy", "U_move",
    "S_m_def">>

\* Decl::getCanonicalDecl(): the first declaration of the entity.
Canonical(a, d) ==
  CASE d = "S"       -> IF a.fwd THEN "S_fwd" ELSE "S"
    [] d = "f_re"    -> "f"
    [] d = "S_m_def" -> "S_m"
    [] OTHER      -> d

\* TagDecl::getDefinition(), None when the record is only declared.
Definition(d) ==
  CASE d \in {"S", "S_fwd", "S_inj"} -> "S"
    [] d \in {"B", "S_N", "in_Q", "U"} -> d
    [] OTHER -> None

\* DeclContext::decls(): the declarations lexically in this context object.
LexicalDecls(a, ctx) ==
  CASE ctx = TU ->
         <<"va1", "va2", "B">> \o (IF a.fwd THEN <<"S_fwd">> ELSE <<>>) \o
         <<"S", "f", "f_re", "del", "ST", "g", "ns", "U", "S_m_def">>
    [] ctx = "B"     -> <<"B_x", "bm">>
    [] ctx = "S"     -> <<"S_inj", "S_f1", "S_next", "S_m", "S_p", "S_N", "S_ctor", "S_dtor">>
    [] ctx = "ns"    -> <<"ns_h", "inner">>
    [] ctx = "inner" -> <<"in_Q">>
    [] ctx = "S_N"   -> <<"N_ctor">>
    [] ctx = "U"     -> <<"U_a", "U_copy", "U_move">>
    [] OTHER         -> <<>>

\* DeclContext::isNamespace / isRecord / isFunctionOrMethod of a context.
ContextKind(ctx) ==
  IF ctx = TU THEN "TranslationUnit"
  ELSE IF DeclTable[ctx].kind = "Namespace" THEN "Namespace"
  ELSE IF DeclTable[ctx].kind = "Record" THEN "Record"
  ELSE "FunctionOrMethod"

SourceRange(d) == [begin |-> DeclTable[d].begin, end |-> DeclTable[d].end]

\* SourceRange::isValid(): both ends valid.
RangeIsValid(r) == r.begin # 0 /\ r.end # 0

(***************************************************************************)
(* Raw comments: every comment of every file.                              *)
(***************************************************************************)
CommentTable ==
  [ cb |-> [begin |-> 10, end |-> 10, file |-> "b_h"],
    c1 |-> [begin |-> 20, end |-> 20, file |-> "a_h"],
    c2 |-> [begin |-> 23, end |-> 23, file |-> "a_h"],
    c3 |-> [begin |-> 30, end |-> 30, file |-> "a_h"],
    c4 |-> [begin |-> 66, end |-> 66, file |-> "a_h"],
    c5 |-> [begin |-> 69, end |-> 69, file |-> "a_h"] ]

CommentIds == DOMAIN CommentTable

\* ASTContext::getRawCommentForDeclNoCache: the comment right before the
\* declaration, None when there is none.
RawCommentForDecl(a, d) ==
  CASE d = "S_fwd" -> "c1"
    [] d = "S"     -> "c2"
    [] d = "B"     -> "cb"
    [] OTHER       -> None

(***************************************************************************)
(* What the frontend knows of records, functions and typedefs.             *)
(***************************************************************************)
Field(type, name, access) == [type |-> type, name |-> name, access |-> access]

\* Asked of the declaration handed to ImportRecord.
IsInjectedClassName(d) == d = "S_inj"
IsUnion(d) == d = "U"

DefaultRecord ==
  [invalid |-> FALSE, complete |-> TRUE, is_cxx |-> TRUE, template |-> FALSE,
   is_class |-> FALSE, final |-> FALSE, name |-> "", fields |-> <<>>,
   can_pass_in_registers |-> TRUE]

\* Asked of the definition of a record.
RecordInfo(a, def) ==
  CASE def = "S" ->
         [DefaultRecord EXCEPT !.name = "S", !.fields =
            << Field(IF a.sfield_ok THEN IntT ELSE LongDoubleT, "f1", "public"),
               Field(Ptr(TagT("S")), "next", "public") >>]
    [] def = "B" ->
         [DefaultRecord EXCEPT !.name = "B", !.fields =
            << Field(IntT, IF a.bfield_ok THEN "x" ELSE "", "public") >>]
    [] def = "U" ->
         [DefaultRecord EXCEPT !.name = "U", !.fields = << Field(IntT, "a", "public") >>]
    [] def = "S_N"  -> [DefaultRecord EXCEPT !.name = "N"]
    [] def = "in_Q" -> [DefaultRecord EXCEPT !.name = "Q"]
    [] OTHER -> DefaultRecord

Param(type, name) == [type |-> type, name |-> name]

NoLifetimes == [has |-> FALSE, this |-> <<>>, params |-> <<>>, ret |-> <<>>]

DefaultFunction ==
  [deleted |-> FALSE, templated |-> FALSE, is_method |-> FALSE, parent |-> None,
   instance |-> FALSE, access |-> "none", params |-> <<>>, ret |-> VoidT,
   name_kind |-> "Identifier", name |-> "", ctor |-> None,
   lifetimes |-> NoLifetimes, ref_qualifier |-> "RQ_None", is_const |-> FALSE,
   is_virtual |-> FALSE, is_explicit |-> FALSE, inlined |-> FALSE]

Method(parent, access, name) ==
  [DefaultFunction EXCEPT !.is_method = TRUE, !.parent = parent, !.instance = TRUE,
                          !.access = access, !.name = name]

\* Asked of a FunctionDecl (for a method: of the CXXMethodDecl).
FunctionInfo(d) ==
  CASE d = "bm"     -> Method("B", "public", "bm")
    [] d = "S_m"    -> [Method("S", "public", "m") EXCEPT
                          !.params = <<Param(Ptr(TagT("B")), "b")>>]
    [] d = "S_p"    -> [Method("S", "private", "p") EXCEPT
                          !.params = <<Param(LongDoubleT, "")>>]
    [] d = "S_ctor" -> [Method("S", "public", "") EXCEPT
                          !.name_kind = "CXXConstructorName", !.ctor = "default",
                          !.inlined = TRUE]
    [] d = "S_dtor" -> [Method("S", "public", "") EXCEPT
                          !.name_kind = "CXXDestructorName", !.inlined = TRUE]
    [] d = "f"      -> [DefaultFunction EXCEPT !.name = "f",
                          !.params = <<Param(Ptr(TagT("S")), "s")>>,
                          !.lifetimes = [has |-> TRUE, this |-> <<>>,
                                         params |-> << <<1>> >>, ret |-> <<>>]]
    [] d = "del"    -> [DefaultFunction EXCEPT !.name = "del", !.deleted = TRUE,
                          !.params = <<Param(LongDoubleT, "")>>]
    [] d = "g"      -> [DefaultFunction EXCEPT !.name = "g",
                          !.params = <<Param(Ptr(TagT("B")), "")>>,
                          !.ret = Ptr(TypedefT("ST"))]
    [] d = "ns_h"   -> [DefaultFunction EXCEPT !.name = "h"]
    [] d = "N_ctor" -> [Method("S_N", "public", "") EXCEPT
                          !.name_kind = "CXXConstructorName", !.ctor = "other",
                          !.params = <<Param(IntT, "")>>]
    [] d = "U_copy" -> [Method("U", "public", "") EXCEPT
                          !.name_kind = "CXXConstructorName", !.ctor = "copy",
                          !.params = <<Param(LRef(Const(TagT("U"))), "")>>,
                          !.inlined = TRUE]
    [] d = "U_move" -> [Method("U", "public", "") EXCEPT
                          !.name_kind = "CXXConstructorName", !.ctor = "move",
                          !.params = <<Param(RRefT("U &&"), "")>>,
                          !.inlined = TRUE]
    [] OTHER        -> DefaultFunction

\* CXXMethodDecl::getThisType(): pointer to the parent record.
ThisType(d) == Ptr(TagT(FunctionInfo(d).parent))

\* Asked of a TypedefNameDecl: its spelled name and its underlying type.
TypedefInfo(a, d) ==
  CASE d = "va1" -> [name |-> "__builtin_ms_va_list", underlying |-> Ptr(CharT)]
    [] d = "va2" -> [name |-> "__builtin_va_list",
                     underlying |-> IF a.va2ok THEN Ptr(CharT) ELSE ArrayT]
    [] d = "ST"  -> [name |-> "ST", underlying |-> TagT("S")]
    [] OTHER     -> [name |-> "", underlying |-> VoidT]

\* LifetimeSymbolTable::LookupLifetime: the names in alphabetical order; a
\* lifetime id names the one at its index.
LifetimeNames == <<"a", "b", "c">>

(***************************************************************************)
(* Importer::GetOwningTarget and IsFromCurrentTarget.                      *)
(***************************************************************************)
\* The filename the loop looks up in the header-to-target map: a file is
\* kept as its name behind a leading "./" (dot_slash tells whether there was
\* one), so substr(2) leaves the name.
HeaderNameOf(f) == f.name

\* A GetOwningTarget that asks the header-to-target map before it asks
\* whether the location is in a system header.
MapBeforeSystemHeader(files, file) ==
  IF file = InvalidFile
    THEN [done |-> TRUE, target |-> "//:virtual_clang_resource_dir_target", file |-> file]
  ELSE IF files[file].name # None /\ HeaderNameOf(files[file]) \in DOMAIN header_target
    THEN [done |-> TRUE, target |-> header_target[HeaderNameOf(files[file])], file |-> file]
  ELSE IF files[file].system
    THEN [done |-> TRUE, target |-> "//:virtual_clang_resource_dir_target", file |-> file]
  ELSE IF files[file].name = None
    THEN [done |-> TRUE, target |-> "//:builtin", file |-> file]
  ELSE [done |-> FALSE, target |-> None, file |-> files[file].included_from]

\* One round of the loop of GetOwningTarget with source_location in file
\* (InvalidFile when the location is invalid): the label returned, or the
\* file of the include location the loop goes on with.
OwningTargetStep(files, file) ==
  IF file = InvalidFile \/ files[file].system
    THEN [done |-> TRUE, target |-> "//:virtual_clang_resource_dir_target", file |-> file]
  ELSE IF files[file].name = None
    THEN [done |-> TRUE, target |-> "//:builtin", file |-> file]
  ELSE IF HeaderNameOf(files[file]) \in DOMAIN header_target
    THEN [done |-> TRUE, target |-> header_target[HeaderNameOf(files[file])], file |-> file]
  ELSE [done |-> FALSE, target |-> None, file |-> files[file].included_from]

RECURSIVE OwningTargetFrom(_, _)
\* The loop of GetOwningTarget over the include stack, from file on.
OwningTargetFrom(files, file) ==
  IF OwningTargetStep(files, file).done
    THEN OwningTargetStep(files, file).target
    ELSE OwningTargetFrom(files, OwningTargetStep(files, file).file)

\* GetOwningTarget is not run on its own.
\* main is not run on its own.
NoCliRun ==
  /\ flags = None
  /\ ir_ok = None
  /\ io_errors = None
  /\ files_on_disk = None
  /\ exit_code = None
NoOwnerRun ==
  /\ source_manager = None
  /\ decl_location = None
  /\ source_location = None
  /\ owning_target = None
  /\ loop_rounds = 0
GetOwningTarget(d) == OwningTargetFrom(FileTable, DeclTable[d].file)

IsFromCurrentTarget(d) == target_ = GetOwningTarget(d)

(***************************************************************************)
(* Names.                                                                  *)
(***************************************************************************)
NoName == [has |-> FALSE, special |-> None, ident |-> ""]

\* Importer::GetTranslatedName, on the kind and text of the declaration's
\* name; is_param and pos: a ParmVarDecl and its function scope index.
GetTranslatedName(name_kind, name, is_param, pos) ==
  CASE name_kind = "Identifier" ->
         IF name = ""
           THEN IF is_param
                  THEN [has |-> TRUE, special |-> None, ident |-> "__param_" \o ToString(pos)]
                  ELSE NoName
           ELSE [has |-> TRUE, special |-> None, ident |-> name]
    [] name_kind = "CXXConstructorName" ->
         [has |-> TRUE, special |-> "Constructor", ident |-> ""]
    [] name_kind = "CXXDestructorName" ->
         [has |-> TRUE, special |-> "Destructor", ident |-> ""]
    [] OTHER -> NoName

\* Importer::GetTranslatedIdentifier: the translated name when it is an
\* identifier.
GetTranslatedIdentifier(name_kind, name, is_param, pos) ==
  LET n == GetTranslatedName(name_kind, name, is_param, pos)
  IN IF n.has /\ n.special = None THEN n ELSE NoName

\* The name of a tag or typedef declaration, as GetTranslatedIdentifier sees it.
TypeDeclIdentifier(a, d) ==
  IF DeclTable[d].kind = "Record"
    THEN GetTranslatedIdentifier("Identifier",
           RecordInfo(a, IF Definition(d) # None THEN Definition(d) ELSE d).name, FALSE, 0)
    ELSE GetTranslatedIdentifier("Identifier", TypedefInfo(a, d).name, FALSE, 0)

(***************************************************************************)
(* The type mapper.                                                        *)
(***************************************************************************)
\* kWellKnownTypes
kWellKnownTypes ==
  [ x \in {"ptrdiff_t", "intptr_t", "std::ptrdiff_t", "std::intptr_t"} |-> "isize" ] @@
  [ x \in {"size_t", "uintptr_t", "std::size_t", "std::uintptr_t"} |-> "usize" ] @@
  [ x \in {"int8_t", "std::int8_t"} |-> "i8" ] @@
  [ x \in {"int16_t", "std::int16_t"} |-> "i16" ] @@
  [ x \in {"int32_t", "std::int32_t", "wchar_t"} |-> "i32" ] @@
  [ x \in {"int64_t", "std::int64_t"} |-> "i64" ] @@
  [ x \in {"uint8_t", "std::uint8_t"} |-> "u8" ] @@
  [ x \in {"uint16_t", "std::uint16_t", "char16_t"} |-> "u16" ] @@
  [ x \in {"uint32_t", "std::uint32_t", "char32_t"} |-> "u32" ] @@
  [ x \in {"uint64_t", "std::uint64_t"} |-> "u64" ]

RECURSIVE TypeString(_)
\* QualType::getUnqualifiedType().getAsString()
TypeString(qt) ==
  CASE qt[1].k = "Pointer"   -> TypeString(Tail(qt)) \o " *"
    [] qt[1].k = "LValueRef" -> TypeString(Tail(qt)) \o " &"
    [] OTHER                 -> qt[1].name

RECURSIVE Desugared(_, _)
\* The type as Type::getAs<T>() sees it: typedef sugar removed.
Desugared(a, qt) ==
  IF qt[1].k = "Typedef" /\ qt[1].decl \in DeclIds
    THEN Desugared(a, TypedefInfo(a, qt[1].decl).underlying)
    ELSE qt

MappedType(v, rs_name, cc_name, decl_id, lifetime, nullable) ==
  [v |-> v, rs_name |-> rs_name, cc_name |-> cc_name, decl_id |-> decl_id,
   lifetime |-> lifetime, nullable |-> nullable, is_const |-> FALSE]

NoLifetimeList == [has |-> FALSE, l |-> <<>>]
LifetimeList(l) == [has |-> TRUE, l |-> l]

Unsupported == [ok |-> FALSE, type |-> <<>>, check_failed |-> FALSE]
CheckFailed == [ok |-> FALSE, type |-> <<>>, check_failed |-> TRUE]
Converted(levels) == [ok |-> TRUE, type |-> levels, check_failed |-> FALSE]

\* The builtin case of ConvertType: the leaf for a BuiltinType, <<>> when
\* there is none.
ConvertBuiltin(lv, type_string) ==
  CASE lv.bk = "Bool"   -> <<MappedType("Simple", "bool", "bool", None, 0, FALSE)>>
    [] lv.bk = "Float"  -> <<MappedType("Simple", "f32", "float", None, 0, FALSE)>>
    [] lv.bk = "Double" -> <<MappedType("Simple", "f64", "double", None, 0, FALSE)>>
    [] lv.bk = "Void"   -> <<MappedType("Void", "()", "void", None, 0, FALSE)>>
    [] lv.bk = "Int" /\ lv.bits \in {8, 16, 32, 64} ->
         <<MappedType("Simple", (IF lv.signed THEN "i" ELSE "u") \o ToString(lv.bits),
                      type_string, None, 0, FALSE)>>
    [] OTHER -> <<>>

\* A ConvertType that does not ask known_type_decls_ about a tag or typedef.
ConvertAnyTypeDecl(a, decl, known) ==
  IF TypeDeclIdentifier(a, decl).has
    THEN LET ident == TypeDeclIdentifier(a, decl).ident
         IN <<MappedType("WithDeclIds", ident, ident, Canonical(a, decl), 0, FALSE)>>
    ELSE <<>>

\* The tag and typedef cases of ConvertType.
ConvertTypeDecl(a, decl, known) ==
  IF decl \in known /\ TypeDeclIdentifier(a, decl).has
    THEN LET ident == TypeDeclIdentifier(a, decl).ident
         IN <<MappedType("WithDeclIds", ident, ident, Canonical(a, decl), 0, FALSE)>>
    ELSE <<>>

\* A ConvertType that takes no lifetime from the list.
PopNoLifetime(lifetimes) == [check_failed |-> FALSE, lifetime |-> 0, rest |-> lifetimes]

\* The pointer and reference cases of ConvertType on the optional list of
\* lifetimes: the CHECK, lifetimes->back() and the list after pop_back().
PopLifetime(lifetimes) ==
  IF ~lifetimes.has
    THEN [check_failed |-> FALSE, lifetime |-> 0, rest |-> lifetimes]
  ELSE IF lifetimes.l = <<>>
    THEN [check_failed |-> TRUE, lifetime |-> 0, rest |-> lifetimes]
  ELSE [check_failed |-> FALSE, lifetime |-> lifetimes.l[Len(lifetimes.l)],
        rest |-> LifetimeList(SubSeq(lifetimes.l, 1, Len(lifetimes.l) - 1))]

\* The end of ConvertType: the error when no case produced a type, else the
\* cv-qualification of the outermost level.
Qualified(qt, type) ==
  IF type = <<>> THEN Unsupported
  ELSE Converted(<<[type[1] EXCEPT !.is_const = qt[1].const]>> \o Tail(type))

\* The pointer and reference cases of ConvertType once the pointee is
\* converted; level is the PointerTo or LValueReferenceTo level.
ConvertPointerLike(qt, level, check_failed, pointee) ==
  IF check_failed \/ pointee.check_failed THEN CheckFailed
  ELSE Qualified(qt, IF pointee.ok THEN <<level>> \o pointee.type ELSE <<>>)

RECURSIVE ConvertType(_, _, _, _, _)
\* The chain of cases of ConvertType on the type string, the desugared type
\* and the lifetimes popped for a pointer or reference.
ConvertCases(a, qt, type_string, sugar_free, popped, nullable, known) ==
  IF type_string \in DOMAIN kWellKnownTypes
    THEN Qualified(qt, <<MappedType("Simple", kWellKnownTypes[type_string],
                                    type_string, None, 0, FALSE)>>)
  ELSE IF sugar_free[1].k = "Pointer"
    THEN ConvertPointerLike(qt,
           MappedType("PointerTo", "*", "*", None, popped.lifetime, nullable),
           popped.check_failed,
           ConvertType(a, Tail(sugar_free), popped.rest, TRUE, known))
  ELSE IF sugar_free[1].k = "LValueRef"
    THEN ConvertPointerLike(qt,
           MappedType("LValueReferenceTo", "&", "&", None, popped.lifetime, FALSE),
           popped.check_failed,
           ConvertType(a, Tail(sugar_free), popped.rest, TRUE, known))
  ELSE Qualified(qt,
         CASE qt[1].k = "Builtin" -> ConvertBuiltin(qt[1], type_string)
           [] qt[1].k = "Tag"     -> ConvertTypeDecl(a, qt[1].decl, known)
           [] qt[1].k = "Typedef" -> ConvertTypeDecl(a, qt[1].decl, known)
           [] OTHER -> <<>>)

\* A ConvertType that consumes the list of lifetimes from its front.
ConvertTypeFromFront(a, qt, lifetimes, nullable, known) ==
  ConvertCases(a, qt, TypeString(qt), Desugared(a, qt),
               IF lifetimes.has /\ lifetimes.l # <<>>
                 THEN [check_failed |-> FALSE, lifetime |-> Head(lifetimes.l),
                       rest |-> LifetimeList(Tail(lifetimes.l))]
                 ELSE PopLifetime(lifetimes),
               nullable, known)

\* Importer::ConvertType with known_type_decls_ = known.  lifetimes is the
\* optional list, consumed from its back.
ConvertType(a, qt, lifetimes, nullable, known) ==
  ConvertCases(a, qt, TypeString(qt), Desugared(a, qt), PopLifetime(lifetimes),
               nullable, known)

(***************************************************************************)
(* IR items and lookup results.                                            *)
(***************************************************************************)
Message(msg, arg) == [msg |-> msg, arg |-> arg]

NoMetadata ==
  [has |-> FALSE, record_id |-> None, has_instance |-> FALSE, reference |-> None,
   is_const |-> FALSE, is_virtual |-> FALSE, is_explicit_ctor |-> FALSE]

NoSourceLoc == [filename |-> "", pos |-> 0]

\* One shape for the five variants of IR::Item; kind None is "no item".
NoItem ==
  [kind |-> None, name |-> NoName, id |-> None, owning_target |-> "",
   doc_comment |-> None, return_type |-> <<>>, params |-> <<>>,
   lifetime_params |-> <<>>, is_inline |-> FALSE, member_func_metadata |-> NoMetadata,
   fields |-> <<>>, underlying_type |-> <<>>, message |-> Message("", ""),
   source_loc |-> NoSourceLoc, text |-> None]

\* Importer::ConvertSourceLocation
ConvertSourceLocation(file, pos) ==
  [filename |-> IF file = InvalidFile THEN "" ELSE FileTable[file].name, pos |-> pos]

\* Importer::GetComment: the cleaned text of the raw comment, None without one.
GetComment(a, d) == RawCommentForDecl(a, d)

\* Importer::LookupResult
LookupResult(item, errors) == [item |-> item, errors |-> errors, check_failed |-> FALSE]
EmptyResult == LookupResult(NoItem, <<>>)
ErrorResult(msg) == LookupResult(NoItem, <<Message(msg, "")>>)
AbortedResult == [item |-> NoItem, errors |-> <<>>, check_failed |-> TRUE]

RECURSIVE SortedIds(_)
\* std::sort of the lifetime parameters by name (names are unique and
\* LifetimeNames is in name order).
SortedIds(ids) ==
  IF ids = {} THEN <<>>
  ELSE LET m == CHOOSE x \in ids : \A y \in ids : x <= y
       IN <<[name |-> LifetimeNames[m], id |-> m]>> \o SortedIds(ids \ {m})

RECURSIVE Flatten(_)
Flatten(seqs) == IF seqs = <<>> THEN <<>> ELSE Head(seqs) \o Flatten(Tail(seqs))

Range(seq) == {seq[i] : i \in DOMAIN seq}

(***************************************************************************)
(* Importer::ImportFunction                                                *)
(***************************************************************************)
\* A by-value record type that cannot be passed in registers.
IsNonTrivialAbiRecord(a, qt) ==
  /\ qt[1].k = "Tag"
  /\ DeclTable[qt[1].decl].kind = "Record"
  /\ ~RecordInfo(a, qt[1].decl).can_pass_in_registers

\* An ImportFunction that imports the functions of every target.
FunctionIsNeverSkipped(d) == FALSE

\* The early return of ImportFunction for a declaration of another target.
FunctionIsSkippedForTarget(d) == ~IsFromCurrentTarget(d)

\* An ImportFunction that gives every method a this parameter.
EveryMethodHasThis(fi) == fi.is_method

\* Non-static member functions receive an implicit this parameter.
HasImplicitThis(fi) == fi.is_method /\ fi.instance

\* One round of the parameter loop of ImportFunction: parameter i, its type
\* converted.
ImportParam(a, param, i, type) ==
  [type |-> type,
   name |-> GetTranslatedIdentifier("Identifier", param.name, TRUE, i - 1),
   errors |->
     IF ~type.ok
       THEN <<Message("Parameter type '$0' is not supported", TypeString(param.type))>>
     ELSE IF IsNonTrivialAbiRecord(a, param.type)
       THEN <<Message("Non-trivial_abi type '$0' is not supported by value as a parameter",
                      TypeString(param.type))>>
     ELSE <<>>,
   out |->
     IF type.ok
       THEN <<[type |-> type.type,
               name |-> GetTranslatedIdentifier("Identifier", param.name, TRUE, i - 1).ident]>>
       ELSE <<>>]

\* FuncItem::member_func_metadata of ImportFunction.
MemberFuncMetadata(a, fi) ==
  IF fi.is_method
    THEN [has |-> TRUE, record_id |-> Canonical(a, fi.parent),
          has_instance |-> fi.instance,
          reference |-> IF fi.instance
                          THEN (CASE fi.ref_qualifier = "RQ_LValue" -> "kLValue"
                                  [] fi.ref_qualifier = "RQ_RValue" -> "kRValue"
                                  [] OTHER -> "kUnqualified")
                          ELSE None,
          is_const |-> fi.instance /\ fi.is_const,
          is_virtual |-> fi.instance /\ fi.is_virtual,
          is_explicit_ctor |-> fi.instance /\ fi.ctor # None /\ fi.is_explicit]
    ELSE NoMetadata

\* The lifetimes ImportFunction collects from the annotations of the
\* function.
AllLifetimes(fi) ==
  IF fi.lifetimes.has
    THEN (IF HasImplicitThis(fi) THEN Range(fi.lifetimes.this) ELSE {})
         \cup UNION {Range(fi.lifetimes.params[i]) : i \in 1..Len(fi.params)}
         \cup Range(fi.lifetimes.ret)
    ELSE {}

\* The end of ImportFunction: the Func item, or nothing when the name does
\* not translate.
FuncItem(a, d, fi, translated_name, return_type, params, all_lifetimes) ==
  IF translated_name.has
    THEN LookupResult(
           [NoItem EXCEPT !.kind = "Func", !.name = translated_name,
                          !.owning_target = GetOwningTarget(d),
                          !.doc_comment = GetComment(a, d),
                          !.return_type = return_type.type,
                          !.params = params,
                          !.lifetime_params = SortedIds(all_lifetimes),
                          !.is_inline = fi.inlined,
                          !.member_func_metadata = MemberFuncMetadata(a, fi),
                          !.source_loc = ConvertSourceLocation(DeclTable[d].file,
                                                               DeclTable[d].begin)],
           <<>>)
    ELSE EmptyResult

\* ImportFunction once the types of the signature are converted: the CHECKs,
\* the access of a method, the errors collected, the item.
ImportSignature(a, d, fi, this_type, params, return_type, all_lifetimes) ==
  LET errors ==
        (IF HasImplicitThis(fi) /\ ~this_type.ok
           THEN <<Message("Unsupported type '$0'", TypeString(ThisType(d)))>> ELSE <<>>)
        \o Flatten([i \in 1..Len(fi.params) |-> params[i].errors])
        \o (IF IsNonTrivialAbiRecord(a, fi.ret)
              THEN <<Message("Non-trivial_abi type '$0' is not supported by value as a return type",
                             TypeString(fi.ret))>> ELSE <<>>)
        \o (IF ~return_type.ok
              THEN <<Message("Return type '$0' is not supported", TypeString(fi.ret))>>
              ELSE <<>>)
  IN
  IF \/ fi.lifetimes.has /\ Len(fi.lifetimes.params) # Len(fi.params)
     \/ HasImplicitThis(fi) /\ this_type.check_failed
     \/ \E i \in 1..Len(fi.params) : params[i].type.check_failed \/ ~params[i].name.has
     \/ return_type.check_failed
     \/ \E l \in all_lifetimes : l \notin DOMAIN LifetimeNames
    THEN AbortedResult
  ELSE IF fi.is_method /\ fi.access # "public" THEN EmptyResult
  ELSE IF errors # <<>> THEN LookupResult(NoItem, errors)
  ELSE FuncItem(a, d, fi, GetTranslatedName(fi.name_kind, fi.name, FALSE, 0), return_type,
         (IF HasImplicitThis(fi) /\ this_type.ok
            THEN <<[type |-> this_type.type, name |-> "__this"]>> ELSE <<>>)
         \o Flatten([i \in 1..Len(fi.params) |-> params[i].out]),
         all_lifetimes)

\* ImportFunction on the facts fi of the declaration: the early returns,
\* then the conversion of the signature.
ImportFunctionDecl(a, d, fi, known) ==
  IF fi.deleted THEN EmptyResult
  ELSE IF fi.templated THEN ErrorResult("Function templates are not supported yet")
  ELSE IF fi.is_method /\ Canonical(a, fi.parent) \notin known
    THEN ErrorResult("Couldn't import the parent")
  ELSE ImportSignature(a, d, fi,
         ConvertType(a, ThisType(d),
           IF fi.lifetimes.has THEN LifetimeList(fi.lifetimes.this) ELSE NoLifetimeList,
           FALSE, known),
         [i \in 1..Len(fi.params) |->
            ImportParam(a, fi.params[i], i,
              ConvertType(a, fi.params[i].type,
                IF fi.lifetimes.has THEN LifetimeList(fi.lifetimes.params[i])
                                    ELSE NoLifetimeList,
                TRUE, known))],
         ConvertType(a, fi.ret,
           IF fi.lifetimes.has THEN LifetimeList(fi.lifetimes.ret) ELSE NoLifetimeList,
           TRUE, known),
         AllLifetimes(fi))

\* Importer::ImportFunction with known_type_decls_ = known.
ImportFunction(a, d, known) ==
  IF FunctionIsSkippedForTarget(d) THEN EmptyResult
  ELSE ImportFunctionDecl(a, d, FunctionInfo(d), known)

(***************************************************************************)
(* Importer::ImportFields, ImportRecord and ImportTypedefName.  Each       *)
(* returns its result together with the new known_type_decls_.             *)
(***************************************************************************)
FieldsFailed == [ok |-> FALSE, fields |-> <<>>]

\* An ImportFields that leaves out the field that failed.
SkipFailedField(rest_result) == rest_result

\* What ImportFields does with a field whose type or name does not
\* translate: the whole import fails.
OnFieldFailure(rest_result) == FieldsFailed

\* One round of the loop of ImportFields: field fd at index i, its type and
\* name translated, rest the outcome of the rounds after it.
ImportField(fd, i, default_access, type, field_name, rest) ==
  IF ~type.ok \/ ~field_name.has THEN OnFieldFailure(rest)
  ELSE IF ~rest.ok THEN FieldsFailed
  ELSE [ok |-> TRUE,
        fields |-> <<[identifier |-> field_name.ident,
                      doc_comment |-> None,
                      type |-> type.type,
                      access |-> IF fd.access = "none" THEN default_access ELSE fd.access,
                      offset |-> i - 1]>> \o rest.fields]

RECURSIVE ImportFieldsFrom(_, _, _, _, _)
\* The loop of ImportFields over the fields all from field i on.
ImportFieldsFrom(a, all, default_access, known, i) ==
  IF i > Len(all) THEN [ok |-> TRUE, fields |-> <<>>]
  ELSE ImportField(all[i], i, default_access,
         ConvertType(a, all[i].type, NoLifetimeList, TRUE, known),
         GetTranslatedIdentifier("Identifier", all[i].name, FALSE, 0),
         ImportFieldsFrom(a, all, default_access, known, i + 1))

\* Importer::ImportFields with known_type_decls_ = known.
ImportFields(a, def, default_access, known) ==
  ImportFieldsFrom(a, RecordInfo(a, def).fields, default_access, known, 1)

\* An import result together with the known_type_decls_ it leaves.
Outcome(result, known) == [result |-> result, known |-> known]

\* An ImportRecord that leaves the record in known_type_decls_ when a field
\* fails.
KeepProvisional(known, def) == known \cup {def}

\* ImportRecord erases the record from known_type_decls_ when a field fails.
RollBack(known, def) == known \ {def}

\* The end of ImportRecord: the fields imported with the record inserted
\* into known_type_decls_, then the Record item or the roll back.
ImportRecordFields(a, def, known, record_name, fields) ==
  IF ~fields.ok
    THEN Outcome(ErrorResult("Importing field failed"), RollBack(known, def))
  ELSE Outcome(
         LookupResult(
           [NoItem EXCEPT !.kind = "Record", !.name = record_name,
                          !.id = Canonical(a, def),
                          !.owning_target = GetOwningTarget(def),
                          !.doc_comment = GetComment(a, def),
                          !.fields = fields.fields],
           <<>>),
         known \cup {def})

\* An ImportRecord that takes every record for defined, valid and complete.
EveryRecordIsDefined(def, ri) == FALSE

\* ImportRecord finds no definition it can ask the record layout of.
LacksDefinition(def, ri) == def = None \/ ri.invalid \/ ~ri.complete

\* ImportRecord on the definition def of the record and its facts ri.
ImportRecordDefinition(a, def, ri, record_name, known) ==
  IF LacksDefinition(def, ri) THEN Outcome(EmptyResult, known)
  ELSE IF ri.is_cxx /\ ri.template
    THEN Outcome(ErrorResult("Class templates are not supported yet"), known)
  ELSE IF ~record_name.has THEN Outcome(EmptyResult, known)
  ELSE ImportRecordFields(a, def, known, record_name,
         ImportFields(a, def, IF ri.is_cxx /\ ri.is_class THEN "private" ELSE "public",
                      known \cup {def}))

\* What ImportRecord asks of the declaration d it is handed: the kind of
\* its context, isInjectedClassName, isUnion, its definition and the facts
\* of that.
RecordDeclOf(a, d) ==
  [ctx_kind |-> ContextKind(DeclTable[d].ctx), injected |-> IsInjectedClassName(d),
   union |-> IsUnion(d), def |-> Definition(d), info |-> RecordInfo(a, Definition(d))]

\* ImportRecord on a declaration with the facts rd.
ImportRecordDecl(a, rd, known) ==
  IF rd.ctx_kind = "FunctionOrMethod" THEN Outcome(EmptyResult, known)
  ELSE IF rd.injected THEN Outcome(EmptyResult, known)
  ELSE IF rd.ctx_kind = "Record"
    THEN Outcome(ErrorResult("Nested classes are not supported yet"), known)
  ELSE IF rd.union
    THEN Outcome(ErrorResult("Unions are not supported yet"), known)
  ELSE ImportRecordDefinition(a, rd.def, rd.info,
         GetTranslatedIdentifier("Identifier", rd.info.name, FALSE, 0), known)

\* Importer::ImportRecord with known_type_decls_ = known.
ImportRecord(a, d, known) == ImportRecordDecl(a, RecordDeclOf(a, d), known)

\* An ImportTypedefName that forgets the type declarations known before.
InsertOnlyTypedef(known, d) == {d}

\* known_type_decls_.insert(typedef_name_decl)
InsertTypedef(known, d) == known \cup {d}

\* The end of ImportTypedefName on the translated name and the converted
\* underlying type.
ImportTypedefUnderlying(a, d, known, ti, identifier, underlying_type) ==
  IF ti.name \in DOMAIN kWellKnownTypes THEN Outcome(EmptyResult, known)
  ELSE IF ~identifier.has THEN Outcome(AbortedResult, known)
  ELSE IF underlying_type.ok
    THEN Outcome(
           LookupResult(
             [NoItem EXCEPT !.kind = "TypeAlias", !.name = identifier,
                            !.id = Canonical(a, d),
                            !.owning_target = GetOwningTarget(d),
                            !.underlying_type = underlying_type.type],
             <<>>),
           InsertTypedef(known, d))
  ELSE Outcome(LookupResult(NoItem,
                 <<Message("Unsupported type '$0'", TypeString(ti.underlying))>>), known)

\* Importer::ImportTypedefName with known_type_decls_ = known.
ImportTypedefName(a, d, known) ==
  IF ContextKind(DeclTable[d].ctx) = "FunctionOrMethod" THEN Outcome(EmptyResult, known)
  ELSE IF ContextKind(DeclTable[d].ctx) = "Record"
    THEN Outcome(ErrorResult("Typedefs nested in classes are not supported yet"), known)
  ELSE ImportTypedefUnderlying(a, d, known, TypedefInfo(a, d),
         GetTranslatedIdentifier("Identifier", TypedefInfo(a, d).name, FALSE, 0),
         ConvertType(a, TypedefInfo(a, d).underlying, NoLifetimeList, TRUE, known))

\* Importer::ImportDecl without the walk over a record's members, which the
\* walker does before the result is returned.
ImportDecl(a, d, known) ==
  IF ContextKind(DeclTable[d].ctx) = "Namespace"
    THEN Outcome(ErrorResult("Items contained in namespaces are not supported yet"), known)
  ELSE CASE DeclTable[d].kind \in {"Function", "FunctionTemplate"} ->
              Outcome(ImportFunction(a, d, known), known)
         [] DeclTable[d].kind = "Record"      -> ImportRecord(a, d, known)
         [] DeclTable[d].kind = "TypedefName" -> ImportTypedefName(a, d, known)
         [] DeclTable[d].kind = "ClassTemplate" ->
              Outcome(ErrorResult("Class templates are not supported yet"), known)
         [] OTHER -> Outcome(EmptyResult, known)

(***************************************************************************)
(* Importer::ImportFreeComments                                            *)
(***************************************************************************)
\* SourceManager::isBeforeInTranslationUnit on valid locations.
isBeforeInTranslationUnit(x, y) == x < y

\* The comparator of ordered_comments.
source_order(x, y) == y # 0 /\ (x = 0 \/ isBeforeInTranslationUnit(x, y))

\* The comments of the entry headers, keyed by begin location.
EntryHeaderComments ==
  {c \in CommentIds : FileTable[CommentTable[c].file].name \in Range(entry_headers_)}

\* ImportFreeComments without the erase of the doc comments.
NeverDocCommentOf(a, c, decl) == FALSE

\* erase(raw_comment->getBeginLoc()) for the doc comment of decl.
IsDocCommentOf(a, c, decl) ==
  /\ RawCommentForDecl(a, decl) # None
  /\ ~source_order(CommentTable[c].begin, CommentTable[RawCommentForDecl(a, decl)].begin)
  /\ ~source_order(CommentTable[RawCommentForDecl(a, decl)].begin, CommentTable[c].begin)

\* ImportFreeComments without the erase of the comments within a declaration.
NeverWithinDecl(c, decl) == FALSE

\* erase(lower_bound(decl->getBeginLoc()), upper_bound(decl->getEndLoc())).
IsWithinDecl(c, decl) ==
  /\ ~source_order(CommentTable[c].begin, DeclTable[decl].begin)
  /\ ~source_order(DeclTable[decl].end, CommentTable[c].begin)

RECURSIVE InSourceOrder(_)
\* The comments of a set as the ordered map iterates them.
InSourceOrder(cs) ==
  IF cs = {} THEN <<>>
  ELSE LET m == CHOOSE x \in cs :
                  \A y \in cs : ~source_order(CommentTable[y].begin, CommentTable[x].begin)
       IN <<m>> \o InSourceOrder(cs \ {m})

ImportFreeComments(a, cache) ==
  InSourceOrder(
    {c \in EntryHeaderComments :
       \A decl \in DOMAIN cache :
         cache[decl].item.kind # None =>
           ~IsDocCommentOf(a, c, decl) /\ ~IsWithinDecl(c, decl)})

(***************************************************************************)
(* Importer::Import after the walk: the items, their order keys, the sort. *)
(***************************************************************************)
LocalOrder(d) ==
  IF DeclTable[d].kind = "Record"
    THEN IF ContextKind(DeclTable[d].ctx) = "Record" THEN 1 ELSE 0
  ELSE IF DeclTable[d].kind = "Function" /\ FunctionInfo(d).name_kind = "CXXConstructorName"
    THEN CASE FunctionInfo(d).ctor = "default" -> 2
           [] FunctionInfo(d).ctor = "copy"    -> 3
           [] FunctionInfo(d).ctor = "move"    -> 4
           [] OTHER                            -> 5
  ELSE IF DeclTable[d].kind = "Function" /\ FunctionInfo(d).name_kind = "CXXDestructorName"
    THEN 6
  ELSE 7

OrderedItem(range, local_order, item, from) ==
  [range |-> range, local_order |-> local_order, item |-> item, from |-> from]

\* The comparison of a valid with an invalid range the other way round.
ValidRangeFirst(x_valid, y_valid) == x_valid /\ ~y_valid

\* is_less_than when exactly one of the ranges is valid.
InvalidRangeFirst(x_valid, y_valid) == ~x_valid /\ y_valid

is_less_than(x, y) ==
  IF ~RangeIsValid(x.range) \/ ~RangeIsValid(y.range)
    THEN IF RangeIsValid(x.range) # RangeIsValid(y.range)
           THEN InvalidRangeFirst(RangeIsValid(x.range), RangeIsValid(y.range))
           ELSE x.local_order < y.local_order
  ELSE IF x.range.begin # y.range.begin
    THEN isBeforeInTranslationUnit(x.range.begin, y.range.begin)
  ELSE IF x.range.end # y.range.end
    THEN isBeforeInTranslationUnit(x.range.end, y.range.end)
  ELSE x.local_order < y.local_order

RECURSIVE InsertStable(_, _)
\* x put behind every element of the sorted list that is not greater.
InsertStable(x, sorted) ==
  IF sorted = <<>> THEN <<x>>
  ELSE IF is_less_than(x, Head(sorted)) THEN <<x>> \o sorted
  ELSE <<Head(sorted)>> \o InsertStable(x, Tail(sorted))

RECURSIVE stable_sort(_)
\* std::stable_sort with is_less_than.
stable_sort(seq) ==
  IF seq = <<>> THEN <<>>
  ELSE InsertStable(seq[Len(seq)], stable_sort(SubSeq(seq, 1, Len(seq) - 1)))

\* The iteration order of a hash map over the declarations of dom.
HashOrder(dom, seed) ==
  LET n == Len(DeclOrder)
      rotated == [i \in 1..n |-> DeclOrder[((i - 1 + seed) % n) + 1]]
  IN SelectSeq(rotated, LAMBDA d : d \in dom)

\* What one cache entry adds to the items of Import.
\* An Import that emits the errors of the declarations of every target.
ErrorsOfAnyTargetAreEmitted(d) == TRUE

\* The test of Import before the loop over result.errors().
ErrorsAreEmitted(d) == IsFromCurrentTarget(d)
ItemsOfDecl(cache, d) ==
  LET result == cache[d]
      errors == result.errors
  IN (IF result.item.kind # None
        THEN <<OrderedItem(SourceRange(d), LocalOrder(d), result.item, d)>> ELSE <<>>)
     \o
     (IF ErrorsAreEmitted(d)
        THEN [i \in 1..Len(errors) |->
                OrderedItem(SourceRange(d), LocalOrder(d),
                  [NoItem EXCEPT !.kind = "UnsupportedItem",
                     !.name = [has |-> TRUE, special |-> None,
                               ident |-> IF DeclTable[d].named THEN DeclTable[d].qname
                                                               ELSE "unnamed"],
                     !.message = errors[i],
                     !.source_loc = ConvertSourceLocation(DeclTable[d].file,
                                                          DeclTable[d].begin)],
                  d)]
        ELSE <<>>)

CommentItem(c) ==
  OrderedItem([begin |-> CommentTable[c].begin, end |-> CommentTable[c].end], 0,
              [NoItem EXCEPT !.kind = "Comment", !.text = c], c)

\* The sorted items of Import when lookup_cache_ iterates in the order of seed.
SortedItems(a, cache, seed) ==
  LET order == HashOrder(DOMAIN cache, seed)
      comments == ImportFreeComments(a, cache)
  IN stable_sort(
       Flatten([i \in 1..Len(order) |-> ItemsOfDecl(cache, order[i])])
       \o [i \in 1..Len(comments) |-> CommentItem(comments[i])])

(***************************************************************************)
(* The walk.  A frame is one ImportDeclsFromDeclContext call: the context, *)
(* the declarations not yet visited and, for the members of a record, the  *)
(* record whose result ImportDecl returns once the members are done.       *)
(***************************************************************************)
Frame(ctx, rest, pending, result) ==
  [ctx |-> ctx, rest |-> rest, pending |-> pending, result |-> result]

EmptyCache == [d \in {} |-> EmptyResult]

RemoveAt(seq, i) == SubSeq(seq, 1, i - 1) \o SubSeq(seq, i + 1, Len(seq))

\* LookupDecl without the lookup in lookup_cache_.
CacheNeverContains(cache, c) == FALSE

\* lookup_cache_.contains(decl)
CacheContains(cache, c) == c \in DOMAIN cache

\* lookup_cache_.insert: an entry that exists is kept.
CacheInsert(cache, c, result) ==
  IF c \in DOMAIN cache THEN cache ELSE (c :> result) @@ cache

\* A walker that enters the namespaces of the translation unit and not the
\* namespaces inside them.
TopLevelNamespaceFrames(a, d) ==
  IF DeclTable[d].kind = "Namespace" /\ DeclTable[d].ctx = TU
    THEN <<Frame(d, LexicalDecls(a, d), None, EmptyResult)>>
    ELSE <<>>

\* The frames ImportDeclsFromDeclContext recurses into after LookupDecl(d).
NamespaceFrames(a, d) ==
  IF DeclTable[d].kind = "Namespace"
    THEN <<Frame(d, LexicalDecls(a, d), None, EmptyResult)>>
    ELSE <<>>

\* ImportDecl walks the members of the declaration it was handed.
WalksMembers(c) ==
  DeclTable[c].kind = "Record" /\ ContextKind(DeclTable[c].ctx) # "Namespace"

RECURSIVE TypeDecls(_, _)
\* The tag and typedef declarations ConvertType asks known_type_decls_ about.
TypeDecls(a, qt) ==
  LET t == Desugared(a, qt)
  IN CASE t[1].k \in {"Pointer", "LValueRef"} -> TypeDecls(a, Tail(t))
       [] qt[1].k \in {"Tag", "Typedef"}      -> {Canonical(a, qt[1].decl)}
       [] OTHER                               -> {}

\* The declarations the types of declaration c mention, and the parent
\* record of a method.
Mentions(a, c) ==
  CASE DeclTable[c].kind = "Function" ->
         UNION {TypeDecls(a, FunctionInfo(c).params[i].type) :
                  i \in DOMAIN FunctionInfo(c).params}
         \cup TypeDecls(a, FunctionInfo(c).ret)
         \cup (IF FunctionInfo(c).is_method
                 THEN {Canonical(a, FunctionInfo(c).parent)} ELSE {})
    [] DeclTable[c].kind = "Record" /\ Definition(c) # None ->
         UNION {TypeDecls(a, RecordInfo(a, Definition(c)).fields[i].type) :
                  i \in DOMAIN RecordInfo(a, Definition(c)).fields}
    [] DeclTable[c].kind = "TypedefName" -> TypeDecls(a, TypedefInfo(a, c).underlying)
    [] OTHER -> {}

\* c is imported while a declaration its types mention has not been looked up.
EarlyReference(c) ==
  \E m \in Mentions(ast, c) \ {c} :
    /\ m \notin DOMAIN lookup_cache_
    /\ \A i \in DOMAIN stack : stack[i].pending # m

WindowOf(r) == IF r = 1 THEN 1 ELSE Window

Init ==
  /\ ast \in Toggles
  /\ run = 1
  /\ pc = "walk"
  /\ stack = <<Frame(TU, LexicalDecls(ast, TU), None, EmptyResult)>>
  /\ lookup_cache_ = EmptyCache
  /\ known_type_decls_ = {}
  /\ items = <<>>
  /\ ir = <<>>
  /\ import_count = [d \in DeclIds |-> 0]
  /\ early_ref = FALSE
  /\ permuted = FALSE
  /\ first_items = <<>>
  /\ function_decl = None
  /\ record_decl = None
  /\ NoOwnerRun
  /\ NoCliRun

\* ImportDeclsFromDeclContext visits declaration i of the rest of the
\* current context and LookupDecl finds its canonical declaration cached.
LookupDeclCached(i) ==
  /\ pc = "walk" /\ stack # <<>>
  /\ i \in 1..Len(Head(stack).rest) /\ i <= WindowOf(run)
  /\ LET top == Head(stack)
         d == top.rest[i]
         c == Canonical(ast, d)
     IN /\ CacheContains(lookup_cache_, c)
        /\ stack' = NamespaceFrames(ast, d)
                    \o <<[top EXCEPT !.rest = RemoveAt(top.rest, i)]>> \o Tail(stack)
  /\ permuted' = (permuted \/ i > 1)
  /\ UNCHANGED <<ast, run, pc, lookup_cache_, known_type_decls_, items, ir,
                 import_count, early_ref, first_items>>
  /\ UNCHANGED inputs

\* LookupDecl misses and ImportDecl imports a record: ImportRecord runs and
\* the walk enters the members; the result is cached when they are done.
LookupDeclImportRecord(i) ==
  /\ pc = "walk" /\ stack # <<>>
  /\ i \in 1..Len(Head(stack).rest) /\ i <= WindowOf(run)
  /\ LET top == Head(stack)
         d == top.rest[i]
         c == Canonical(ast, d)
     IN /\ ~CacheContains(lookup_cache_, c)
        /\ WalksMembers(c)
        /\ \E out \in {ImportRecord(ast, c, known_type_decls_)} :
             /\ known_type_decls_' = out.known
             /\ stack' = <<Frame(c, LexicalDecls(ast, c), c, out.result)>>
                         \o <<[top EXCEPT !.rest = RemoveAt(top.rest, i)]>> \o Tail(stack)
        /\ import_count' = [import_count EXCEPT ![c] = @ + 1]
        /\ early_ref' = (early_ref \/ EarlyReference(c))
  /\ permuted' = (permuted \/ i > 1)
  /\ UNCHANGED <<ast, run, pc, lookup_cache_, items, ir, first_items>>
  /\ UNCHANGED inputs

\* LookupDecl misses and ImportDecl imports anything else; the result is
\* cached at once.
LookupDeclImport(i) ==
  /\ pc = "walk" /\ stack # <<>>
  /\ i \in 1..Len(Head(stack).rest) /\ i <= WindowOf(run)
  /\ LET top == Head(stack)
         d == top.rest[i]
         c == Canonical(ast, d)
     IN /\ ~CacheContains(lookup_cache_, c)
        /\ ~WalksMembers(c)
        /\ \E out \in {ImportDecl(ast, c, known_type_decls_)} :
             /\ known_type_decls_' = out.known
             /\ lookup_cache_' = CacheInsert(lookup_cache_, c, out.result)
             /\ pc' = IF out.result.check_failed THEN "aborted" ELSE pc
        /\ stack' = NamespaceFrames(ast, d)
                    \o <<[top EXCEPT !.rest = RemoveAt(top.rest, i)]>> \o Tail(stack)
        /\ import_count' = [import_count EXCEPT ![c] = @ + 1]
        /\ early_ref' = (early_ref \/ EarlyReference(c))
  /\ permuted' = (permuted \/ i > 1)
  /\ UNCHANGED <<ast, run, items, ir, first_items>>
  /\ UNCHANGED inputs

\* ImportDeclsFromDeclContext returns from a nested context; after the
\* members of a record LookupDecl caches the record's result.
ReturnFromDeclContext ==
  /\ pc = "walk" /\ Len(stack) > 1
  /\ Head(stack).rest = <<>>
  /\ stack' = Tail(stack)
  /\ lookup_cache_' = IF Head(stack).pending # None
                        THEN CacheInsert(lookup_cache_, Head(stack).pending, Head(stack).result)
                        ELSE lookup_cache_
  /\ UNCHANGED <<ast, run, pc, known_type_decls_, items, ir, import_count,
                 early_ref, permuted, first_items>>
  /\ UNCHANGED inputs

\* Import after the walk of the translation unit: collect, sort, emit.
Import ==
  /\ pc = "walk" /\ Len(stack) = 1
  /\ Head(stack).rest = <<>>
  /\ \E seed \in 0..MaxHashSeed :
       items' = SortedItems(ast, lookup_cache_, seed)
  /\ ir' = [i \in 1..Len(items') |-> items'[i].item]
  /\ stack' = <<>>
  /\ pc' = "done"
  /\ UNCHANGED <<ast, run, lookup_cache_, known_type_decls_, import_count,
                 early_ref, permuted, first_items>>
  /\ UNCHANGED inputs

\* A second Importer runs over the same translation unit, visiting the
\* declarations of each context in a permuted order.
NextRun ==
  /\ pc = "done" /\ run = 1
  /\ run' = run + 1
  /\ pc' = "walk"
  /\ stack' = <<Frame(TU, LexicalDecls(ast, TU), None, EmptyResult)>>
  /\ lookup_cache_' = EmptyCache
  /\ known_type_decls_' = {}
  /\ items' = <<>>
  /\ ir' = <<>>
  /\ import_count' = [d \in DeclIds |-> 0]
  /\ first_items' = items
  /\ early_ref' = FALSE
  /\ permuted' = FALSE
  /\ UNCHANGED <<ast, inputs>>

(***************************************************************************)
(* ImportFunction on its own: one function declaration, with the lifetimes *)
(* the lifetime oracle returns for it, is imported into an Importer that   *)
(* knows the record S.                                                     *)
(***************************************************************************)
\* The lifetimes the oracle hands out.
OracleIds == {1, 2}

\* A TypeLifetimes of the oracle: up to MaxLifetimes lifetimes.
TypeLifetimes == UNION {[1..k -> OracleIds] : k \in 0..MaxLifetimes}

\* GetLifetimeAnnotations: a failure, or this_lifetimes, one TypeLifetimes
\* per parameter, and return_lifetimes.  The lifetimes of the parameters
\* after the first are those of a type without pointers.
FunctionLifetimes(instance, n) ==
  {NoLifetimes} \cup
  {[has |-> TRUE, this |-> t, params |-> [i \in 1..n |-> IF i = 1 THEN p ELSE <<>>],
    ret |-> r] :
     t \in (IF instance THEN TypeLifetimes ELSE {<<>>}),
     p \in (IF n = 0 THEN {<<>>} ELSE TypeLifetimes),
     r \in TypeLifetimes}

\* The parameter lists and return types of the functions imported on their
\* own.
ParamLists ==
  {<<>>, <<Param(Ptr(IntT), "p"), Param(IntT, "")>>} \cup
  {<<Param(t, "p")>> :
     t \in {IntT, Ptr(IntT), Ptr(Ptr(TagT("S"))), LRef(IntT), LongDoubleT}}

ReturnTypes == {VoidT, Ptr(IntT), LRef(TagT("S"))}

\* The free function f and the method S::m, static or not.
FunctionKinds == {<<"f", FALSE>>, <<"S_m", FALSE>>, <<"S_m", TRUE>>}

\* The facts of the function of kind k with parameters ps, return type r
\* and lifetimes lt.
FunctionDeclOf(k, ps, r, lt) ==
  [decl |-> k[1],
   info |-> [FunctionInfo(k[1]) EXCEPT !.instance = k[2], !.params = ps, !.ret = r,
                                       !.lifetimes = lt]]

\* The functions imported on their own: each kind with each parameter list,
\* return type and lifetimes.
ImportFunctionInit ==
  /\ \E k \in FunctionKinds, ps \in ParamLists, r \in ReturnTypes :
       \E lt \in FunctionLifetimes(k[2], Len(ps)) :
         function_decl = FunctionDeclOf(k, ps, r, lt)
  /\ record_decl = None
  /\ ast = [fwd |-> FALSE, va2ok |-> TRUE, sfield_ok |-> TRUE, bfield_ok |-> TRUE]
  /\ run = 1
  /\ pc = "import_function"
  /\ stack = <<>>
  /\ lookup_cache_ = EmptyCache
  /\ known_type_decls_ = {"S"}
  /\ items = <<>>
  /\ ir = <<>>
  /\ import_count = [d \in DeclIds |-> 0]
  /\ early_ref = FALSE
  /\ permuted = FALSE
  /\ first_items = <<>>
  /\ NoOwnerRun
  /\ NoCliRun

\* LookupDecl(function_decl) on the empty cache: ImportFunction past the
\* test of the target.
ImportFunctionAlone ==
  /\ pc = "import_function"
  /\ lookup_cache_' =
       CacheInsert(lookup_cache_, function_decl.decl,
         ImportFunctionDecl(ast, function_decl.decl, function_decl.info, known_type_decls_))
  /\ pc' = "imported"
  /\ UNCHANGED <<ast, run, stack, known_type_decls_, items, ir, import_count,
                 early_ref, permuted, first_items, inputs>>

ImportFunctionSpec == ImportFunctionInit /\ [][ImportFunctionAlone]_vars

(***************************************************************************)
(* ImportRecord on its own: one declaration of the record S, with or       *)
(* without a definition, as a struct, a class or a union, in each kind of  *)
(* context.                                                                *)
(***************************************************************************)
\* The kind of the context and whether the declaration is the injected
\* class name, which only a record holds.
RecordContexts ==
  {<<"TranslationUnit", FALSE>>, <<"FunctionOrMethod", FALSE>>,
   <<"Record", FALSE>>, <<"Record", TRUE>>}

TagKinds == {"struct", "class", "union"}

\* What getDefinition() gives: nothing for a record that is only declared,
\* else a definition that is invalid, not complete, or complete.
DefinitionStates == {"declared", "invalid", "incomplete", "complete"}

\* The facts of the declaration of S in context c with tag kind tag and
\* definition state ds, a class template when template.
RecordDeclWith(a, c, tag, ds, template) ==
  [decl |-> "S", ctx_kind |-> c[1], injected |-> c[2], tag |-> tag, state |-> ds,
   union |-> (tag = "union"),
   def |-> IF ds = "declared" THEN None ELSE "S",
   info |-> IF ds = "declared" THEN RecordInfo(a, None)
            ELSE [RecordInfo(a, "S") EXCEPT !.invalid = (ds = "invalid"),
                                            !.complete = (ds # "incomplete"),
                                            !.is_class = (tag = "class"),
                                            !.template = template]]

ImportRecordInit ==
  /\ ast \in {a \in Toggles : ~a.fwd /\ a.va2ok /\ a.bfield_ok}
  /\ \E c \in RecordContexts, tag \in TagKinds, ds \in DefinitionStates,
        template \in BOOLEAN :
       record_decl = RecordDeclWith(ast, c, tag, ds, template)
  /\ function_decl = None
  /\ NoOwnerRun
  /\ NoCliRun
  /\ run = 1
  /\ pc = "import_record"
  /\ stack = <<>>
  /\ lookup_cache_ = EmptyCache
  /\ known_type_decls_ = {}
  /\ items = <<>>
  /\ ir = <<>>
  /\ import_count = [d \in DeclIds |-> 0]
  /\ early_ref = FALSE
  /\ permuted = FALSE
  /\ first_items = <<>>

\* LookupDecl(record_decl) on the empty cache: ImportRecord.
ImportRecordAlone ==
  /\ pc = "import_record"
  /\ \E out \in {ImportRecordDecl(ast, record_decl, known_type_decls_)} :
       /\ lookup_cache_' = CacheInsert(lookup_cache_, record_decl.decl, out.result)
       /\ known_type_decls_' = out.known
  /\ pc' = "record_imported"
  /\ UNCHANGED <<ast, run, stack, items, ir, import_count, early_ref, permuted,
                 first_items, inputs>>

ImportRecordSpec == ImportRecordInit /\ [][ImportRecordAlone]_vars

(***************************************************************************)
(* GetOwningTarget on its own, one round of its loop at a time, over the   *)
(* include stacks of at most MaxIncludeDepth files.                        *)
(***************************************************************************)
\* What the source manager and the header-to-target map say about one file:
\* headers of the map with and without a leading "./", a header whose name
\* is in the map only after two "./", a textual header, system headers in
\* and out of the map, and the built-in buffer.
FileKinds ==
  {[name |-> n, dot_slash |-> ds, system |-> FALSE] :
     n \in {"a.h", "b.h"}, ds \in BOOLEAN} \cup
  {[name |-> "./a.h", dot_slash |-> TRUE, system |-> FALSE],
   [name |-> "t.h", dot_slash |-> FALSE, system |-> FALSE],
   [name |-> "b.h", dot_slash |-> FALSE, system |-> TRUE],
   [name |-> "s.h", dot_slash |-> FALSE, system |-> TRUE],
   [name |-> None, dot_slash |-> FALSE, system |-> FALSE]}

FileIdOf(i) == "h" \o ToString(i)

\* The include stacks: file i is included from file i + 1 and the last file
\* is not included from any; the built-in buffer is never included.
IncludeStacks(depth) ==
  {kinds \in [1..depth -> FileKinds] :
     \A i \in 1..depth : kinds[i].name = None => i = depth}

\* The files of the source manager for an include stack.
FilesOf(kinds) ==
  [f \in {FileIdOf(i) : i \in DOMAIN kinds} |->
     LET i == CHOOSE j \in DOMAIN kinds : FileIdOf(j) = f
     IN [name |-> kinds[i].name, dot_slash |-> kinds[i].dot_slash,
         system |-> kinds[i].system,
         included_from |-> IF i = Len(kinds) THEN InvalidFile ELSE FileIdOf(i + 1)]]

\* A declaration in the first file of an include stack, or at an invalid
\* location when the stack is empty.
GetOwningTargetInit ==
  /\ \E depth \in 0..MaxIncludeDepth : \E kinds \in IncludeStacks(depth) :
       /\ source_manager = FilesOf(kinds)
       /\ decl_location = IF depth = 0 THEN InvalidFile ELSE FileIdOf(1)
  /\ source_location = decl_location
  /\ owning_target = None
  /\ loop_rounds = 0
  /\ function_decl = None
  /\ record_decl = None
  /\ NoCliRun
  /\ ast = [fwd |-> FALSE, va2ok |-> TRUE, sfield_ok |-> TRUE, bfield_ok |-> TRUE]
  /\ run = 1
  /\ pc = "get_owning_target"
  /\ stack = <<>>
  /\ lookup_cache_ = EmptyCache
  /\ known_type_decls_ = {}
  /\ items = <<>>
  /\ ir = <<>>
  /\ import_count = [d \in DeclIds |-> 0]
  /\ early_ref = FALSE
  /\ permuted = FALSE
  /\ first_items = <<>>

\* A round of the loop that finds no target for the file and goes on with
\* the include location.
GetOwningTargetIncludeLoc ==
  /\ pc = "get_owning_target"
  /\ ~OwningTargetStep(source_manager, source_location).done
  /\ source_location' = OwningTargetStep(source_manager, source_location).file
  /\ loop_rounds' = loop_rounds + 1
  /\ UNCHANGED <<ast, run, pc, stack, lookup_cache_, known_type_decls_, items, ir,
                 import_count, early_ref, permuted, first_items, function_decl,
                 record_decl, source_manager, decl_location, owning_target, cli>>

\* A return of GetOwningTarget, from the loop or after it.
GetOwningTargetReturn ==
  /\ pc = "get_owning_target"
  /\ OwningTargetStep(source_manager, source_location).done
  /\ owning_target' = OwningTargetStep(source_manager, source_location).target
  /\ pc' = "owned"
  /\ UNCHANGED <<ast, run, stack, lookup_cache_, known_type_decls_, items, ir,
                 import_count, early_ref, permuted, first_items, function_decl,
                 record_decl, source_manager, decl_location, source_location, loop_rounds, cli>>

GetOwningTargetNext == GetOwningTargetIncludeLoc \/ GetOwningTargetReturn

GetOwningTargetSpec == GetOwningTargetInit /\ [][GetOwningTargetNext]_vars

(***************************************************************************)
(* main of the command-line program on its own, from the flag checks on:   *)
(* --rs_out, --cc_out, --public_headers and --targets_and_headers are      *)
(* given and well formed.  A failed CHECK_OK ends the process by abort().  *)
(***************************************************************************)
OutputPaths == {"rs_out", "cc_out", "ir_out"}

\* What an output path holds: nothing, a file from before this run, the
\* whole contents written by this run, or a file this run opened and did
\* not write in full.
FileStates == {"absent", "old", "new", "partial"}

\* SetFileContents(path, contents) on a path holding file when the open or
\* the write fails as error says.
SetFileContents(file, error) ==
  IF error = "open" THEN [ok |-> FALSE, file |-> file]
  ELSE IF error = "write" THEN [ok |-> FALSE, file |-> "partial"]
  ELSE [ok |-> TRUE, file |-> "new"]

\* CHECK_OK(SetFileContents(path, ...)) followed by the step next.
CheckOkSetFileContents(path, next) ==
  \E out \in {SetFileContents(files_on_disk[path], io_errors[path])} :
    /\ files_on_disk' = [files_on_disk EXCEPT ![path] = out.file]
    /\ pc' = IF out.ok THEN next ELSE "exited"
    /\ exit_code' = IF ~out.ok THEN "abort" ELSE IF next = "exited" THEN "0" ELSE None

MainInit ==
  /\ flags \in [do_nothing : BOOLEAN, ir_out : BOOLEAN]
  /\ ir_ok \in BOOLEAN
  /\ io_errors \in [OutputPaths -> {"none", "open", "write"}]
  /\ files_on_disk \in [OutputPaths -> {"absent", "old"}]
  /\ exit_code = None
  /\ function_decl = None
  /\ record_decl = None
  /\ NoOwnerRun
  /\ ast = [fwd |-> FALSE, va2ok |-> TRUE, sfield_ok |-> TRUE, bfield_ok |-> TRUE]
  /\ run = 1
  /\ pc = "main"
  /\ stack = <<>>
  /\ lookup_cache_ = EmptyCache
  /\ known_type_decls_ = {}
  /\ items = <<>>
  /\ ir = <<>>
  /\ import_count = [d \in DeclIds |-> 0]
  /\ early_ref = FALSE
  /\ permuted = FALSE
  /\ first_items = <<>>

\* IrFromCc returns an error: the output paths are removed, main returns 1.
MainImportFails ==
  /\ pc = "main"
  /\ ~flags.do_nothing /\ ~ir_ok
  /\ files_on_disk' =
       [p \in OutputPaths |->
          IF p = "ir_out" /\ ~flags.ir_out THEN files_on_disk[p] ELSE "absent"]
  /\ exit_code' = "1"
  /\ pc' = "exited"
  /\ UNCHANGED <<ast, run, stack, lookup_cache_, known_type_decls_, items, ir,
                 import_count, early_ref, permuted, first_items, function_decl,
                 record_decl, owner, flags, ir_ok, io_errors>>

\* IrFromCc returns an IR and --ir_out is given: the IR is written.
MainWriteIr ==
  /\ pc = "main"
  /\ ~flags.do_nothing /\ ir_ok /\ flags.ir_out
  /\ CheckOkSetFileContents("ir_out", "ir_written")
  /\ UNCHANGED <<ast, run, stack, lookup_cache_, known_type_decls_, items, ir,
                 import_count, early_ref, permuted, first_items, function_decl,
                 record_decl, owner, flags, ir_ok, io_errors>>

\* rs_out is written: first under --do_nothing, after the IR otherwise.
MainWriteRs ==
  /\ \/ pc = "main" /\ (flags.do_nothing \/ (ir_ok /\ ~flags.ir_out))
     \/ pc = "ir_written"
  /\ CheckOkSetFileContents("rs_out", "rs_written")
  /\ UNCHANGED <<ast, run, stack, lookup_cache_, known_type_decls_, items, ir,
                 import_count, early_ref, permuted, first_items, function_decl,
                 record_decl, owner, flags, ir_ok, io_errors>>

\* cc_out is written and main returns 0.
MainWriteCc ==
  /\ pc = "rs_written"
  /\ CheckOkSetFileContents("cc_out", "exited")
  /\ UNCHANGED <<ast, run, stack, lookup_cache_, known_type_decls_, items, ir,
                 import_count, early_ref, permuted, first_items, function_decl,
                 record_decl, owner, flags, ir_ok, io_errors>>

MainNext == MainImportFails \/ MainWriteIr \/ MainWriteRs \/ MainWriteCc

MainSpec == MainInit /\ [][MainNext]_vars


Next ==
  \/ \E i \in 1..Window : LookupDeclCached(i)
  \/ \E i \in 1..Window : LookupDeclImportRecord(i)
  \/ \E i \in 1..Window : LookupDeclImport(i)
  \/ ReturnFromDeclContext
  \/ Import
  \/ NextRun

Spec == Init /\ [][Next]_vars

(***************************************************************************)
(* Memoization of LookupDecl.                                              *)
(***************************************************************************)
DeclItemKinds == {"Func", "Record", "TypeAlias"}

ImportedAtMostOnce == \A c \in DeclIds : import_count[c] <= 1

CachedResultIsKept ==
  \A c \in DOMAIN lookup_cache_ :
    run' = run => c \in DOMAIN lookup_cache_' /\ lookup_cache_'[c] = lookup_cache_[c]

AtMostOneItemPerDecl ==
  \A i, j \in DOMAIN items :
    /\ items[i].item.kind \in DeclItemKinds
    /\ items[j].item.kind \in DeclItemKinds
    /\ Canonical(ast, items[i].from) = Canonical(ast, items[j].from)
    => i = j

\* C1: during one Import run ImportDecl is executed at most once per
\* canonical declaration, a result once cached is what every later
\* LookupDecl finds (the entry never changes), and the emitted items hold at
\* most one Func, Record or TypeAlias per canonical declaration.
C1_Memoized ==
  [](ImportedAtMostOnce /\ AtMostOneItemPerDecl) /\ [][CachedResultIsKept]_vars

\* The function f was looked up for its declaration and its redeclaration,
\* imported once, and emitted.
C1_Witness ==
  /\ pc = "done"
  /\ import_count["f"] = 1
  /\ Canonical(ast, "f_re") = "f"
  /\ \E i \in DOMAIN items : items[i].from = "f" /\ items[i].item.kind = "Func"

(***************************************************************************)
(* The visit order of the walker.                                          *)
(***************************************************************************)
\* C2 as stated: the second run, which visits the declarations of each
\* context in a permuted order, emits the item sequence of the first run.
C2_SameSequence ==
  (run = 2 /\ pc = "done") =>
    ir = [i \in 1..Len(first_items) |-> first_items[i].item]

\* C2: a permuted visit order in which every record and typedef is looked up
\* before the declarations whose types mention it (and before its methods)
\* yields the items of the frontend's order, each with the same sort key
\* (so the same sorted sequence up to the order of items with equal keys).
C2_SameItemsWhenTypesComeFirst ==
  (run = 2 /\ pc = "done" /\ ~early_ref) =>
    /\ Range(items) = Range(first_items)
    /\ Len(items) = Len(first_items)

\* A second run that left the frontend's order, kept types before their
\* uses, and emitted a record, a method and a function with record
\* parameters.
C2_Witness ==
  /\ run = 2 /\ pc = "done" /\ permuted /\ ~early_ref
  /\ \E i \in DOMAIN items : items[i].from = "S_m" /\ items[i].item.kind = "Func"
  /\ \E i \in DOMAIN items : items[i].from = "g" /\ items[i].item.kind = "Func"

(***************************************************************************)
(* The iteration order of lookup_cache_.                                   *)
(***************************************************************************)
\* C3: the emitted sequence is the same for every iteration order of
\* lookup_cache_, also when declarations share (begin, end, local order).
C3_HashOrderIndependent ==
  pc = "done" =>
    \A seed \in 0..MaxHashSeed : items = SortedItems(ast, lookup_cache_, seed)

(***************************************************************************)
(* The order of the emitted items.                                         *)
(***************************************************************************)
\* The local order the claim assigns to an emitted item.
StatedLocalOrder(x) ==
  IF x.item.kind = "Comment" THEN 0
  ELSE LET d == x.from
       IN CASE DeclTable[d].kind = "Record" /\ ContextKind(DeclTable[d].ctx) # "Record" -> 0
            [] DeclTable[d].kind = "Record" /\ ContextKind(DeclTable[d].ctx) = "Record" -> 1
            [] FunctionInfo(d).ctor = "default" -> 2
            [] FunctionInfo(d).ctor = "copy"    -> 3
            [] FunctionInfo(d).ctor = "move"    -> 4
            [] FunctionInfo(d).ctor = "other"   -> 5
            [] FunctionInfo(d).name_kind = "CXXDestructorName" -> 6
            [] OTHER -> 7

\* x may stand before y in the stated order.
StatedNotAfter(x, y) ==
  LET kx == StatedLocalOrder(x)
      ky == StatedLocalOrder(y)
  IN IF ~RangeIsValid(x.range) THEN RangeIsValid(y.range) \/ kx <= ky
     ELSE /\ RangeIsValid(y.range)
          /\ \/ x.range.begin < y.range.begin
             \/ x.range.begin = y.range.begin /\ x.range.end < y.range.end
             \/ x.range.begin = y.range.begin /\ x.range.end = y.range.end /\ kx <= ky

\* C4: the emitted list is sorted: invalid ranges first, then by range
\* begin, range end and local order, with the local order of the table
\* (0 record or comment, 1 nested record, 2..5 constructors, 6 destructor,
\* 7 anything else); invalid ranges among themselves by local order.
C4_Sorted ==
  pc = "done" =>
    /\ \A i \in DOMAIN items : items[i].local_order = StatedLocalOrder(items[i])
    /\ \A i, j \in DOMAIN items : i < j => StatedNotAfter(items[i], items[j])
    /\ ir = [i \in DOMAIN items |-> items[i].item]

\* An emitted list that starts with an item of invalid range, holds a
\* constructor and a destructor of one range, a nested record, and the
\* copy, move and other constructors.
C4_Witness ==
  /\ pc = "done" /\ Len(items) > 1
  /\ ~RangeIsValid(items[1].range) /\ RangeIsValid(items[Len(items)].range)
  /\ \E i, j \in DOMAIN items :
       /\ i < j /\ items[i].range = items[j].range
       /\ items[i].local_order = 2 /\ items[j].local_order = 6
  /\ \A k \in {0, 1, 3, 4, 5, 7} : \E i \in DOMAIN items : items[i].local_order = k

(***************************************************************************)
(* Free comments.                                                          *)
(***************************************************************************)
\* Two valid source ranges share a location.
Intersects(r, q) ==
  /\ RangeIsValid(r) /\ RangeIsValid(q)
  /\ ~(r.end < q.begin) /\ ~(q.end < r.begin)

\* No emitted Comment intersects an emitted item of one of the kinds.
CommentsDisjointFrom(kinds) ==
  \A i, j \in DOMAIN items :
    items[i].item.kind = "Comment" /\ items[j].item.kind \in kinds
      => ~Intersects(items[i].range, items[j].range)

\* C5 as stated: no emitted Comment intersects the source range of an
\* emitted Func, Record, TypeAlias or UnsupportedItem.
C5_DisjointFromAllItems ==
  pc = "done" => CommentsDisjointFrom(DeclItemKinds \cup {"UnsupportedItem"})

\* C5: no emitted Comment begins within the source range under which a
\* Func, Record or TypeAlias item is emitted (the range of the canonical
\* declaration the cache holds); a comment within a declaration that gave
\* only UnsupportedItems is emitted.
C5_DisjointFromImportedItems ==
  pc = "done" =>
    \A i, j \in DOMAIN items :
      items[i].item.kind = "Comment" /\ items[j].item.kind \in DeclItemKinds
        => ~(/\ RangeIsValid(items[j].range)
             /\ items[j].range.begin <= items[i].range.begin
             /\ items[i].range.begin <= items[j].range.end)

\* The record S is emitted and the comment c3 within it is not, while the
\* comment c4 within the unsupported union U is.
C5_Witness ==
  /\ pc = "done"
  /\ \E j \in DOMAIN items : items[j].from = "S" /\ items[j].item.kind = "Record"
  /\ \A i \in DOMAIN items : items[i].from # "c3"
  /\ \E i, j \in DOMAIN items :
       /\ items[i].from = "c4" /\ items[j].from = "U"
       /\ Intersects(items[i].range, items[j].range)

\* The comments emitted as Comment items.
EmittedComments == {items[i].from : i \in {j \in DOMAIN items : items[j].item.kind = "Comment"}}

\* The cached declarations whose result holds an IR item.
DeclsWithItem == {d \in DOMAIN lookup_cache_ : lookup_cache_[d].item.kind # None}

\* The two tests of the claim for comment c and declaration d.
PassesBothTests(c, d) ==
  /\ ~(DeclTable[d].begin <= CommentTable[c].begin /\ CommentTable[c].begin <= DeclTable[d].end)
  /\ \/ RawCommentForDecl(ast, d) = None
     \/ CommentTable[RawCommentForDecl(ast, d)].begin # CommentTable[c].begin

\* C6: the emitted Comment items are exactly the comments of the entry
\* headers whose begin location, for every cached declaration that holds an
\* IR item, is not within the declaration and is not the begin of the
\* declaration's doc comment.
C6_ExactlyFreeComments ==
  pc = "done" =>
    EmittedComments =
      {c \in CommentIds :
         /\ FileTable[CommentTable[c].file].name \in Range(entry_headers_)
         /\ \A d \in DeclsWithItem : PassesBothTests(c, d)}

\* The record S is emitted; its doc comment c2 and the comment c3 within it
\* are not, the free comment c5 is, and the comment cb of b.h is not.
C6_Witness ==
  /\ pc = "done"
  /\ "S" \in DeclsWithItem
  /\ "c5" \in EmittedComments /\ "c1" \in EmittedComments
  /\ EmittedComments \cap {"c2", "c3", "cb"} = {}

(***************************************************************************)
(* Records and their fields.                                               *)
(***************************************************************************)
\* A MappedType without an unsupported leaf: a chain of pointers and
\* references that ends in a named type.
FullyConverted(type) ==
  /\ type # <<>>
  /\ \A i \in 1..(Len(type) - 1) : type[i].v \in {"PointerTo", "LValueReferenceTo"}
  /\ type[Len(type)].v \in {"Simple", "Void", "WithDeclIds"}
  /\ type[Len(type)].rs_name # "" /\ type[Len(type)].cc_name # ""
  /\ type[Len(type)].v = "WithDeclIds" => type[Len(type)].decl_id \in DeclIds

\* The results that hold a Record: the cached ones and those of the record
\* imports in progress.
RecordResults ==
  {[def |-> Definition(d), item |-> lookup_cache_[d].item] :
     d \in {x \in DOMAIN lookup_cache_ : lookup_cache_[x].item.kind = "Record"}}
  \cup
  {[def |-> Definition(stack[i].pending), item |-> stack[i].result.item] :
     i \in {j \in DOMAIN stack : stack[j].result.item.kind = "Record"}}

\* The type of a field as the source spells it can be mapped.
Mappable(qt) ==
  LET t == Desugared(ast, qt)
      leaf == t[Len(t)]
  IN /\ \A i \in 1..(Len(t) - 1) : t[i].k \in {"Pointer", "LValueRef"}
     /\ leaf.k \in {"Builtin", "Tag", "Typedef"}
     /\ leaf.k = "Builtin" => leaf.bk # "Other"

\* C8: a Record holds every field of its record, in order, each with a
\* translated name and a fully converted MappedType of a mappable source
\* type; a record with a field that fails gives no Record at all.
C8_RecordsAreWhole ==
  /\ \A r \in RecordResults :
       LET src == RecordInfo(ast, r.def).fields
       IN /\ Len(r.item.fields) = Len(src)
          /\ \A i \in DOMAIN src :
               /\ src[i].name # "" /\ r.item.fields[i].identifier = src[i].name
               /\ Mappable(src[i].type)
               /\ FullyConverted(r.item.fields[i].type)
  /\ pc = "done" =>
       \A i \in DOMAIN items : items[i].item.kind = "Record" =>
         /\ \A k \in DOMAIN items[i].item.fields :
              FullyConverted(items[i].item.fields[k].type)
         /\ Len(items[i].item.fields) = Len(RecordInfo(ast, Definition(items[i].from)).fields)

\* The record S is emitted with both fields; B, whose field has no name,
\* is refused and gives no Record.
C8_Witness ==
  /\ pc = "done" /\ ~ast.bfield_ok
  /\ \E i \in DOMAIN items :
       /\ items[i].item.kind = "Record" /\ Definition(items[i].from) = "S"
       /\ Len(items[i].item.fields) = 2
  /\ \A i \in DOMAIN items : items[i].item.kind = "Record" => Definition(items[i].from) # "B"
  /\ lookup_cache_["B"].errors # <<>>

(***************************************************************************)
(* known_type_decls_.                                                      *)
(***************************************************************************)
NoRecordImportInProgress == \A i \in DOMAIN stack : stack[i].pending = None

\* The declarations whose lookup result holds a Record or a TypeAlias.
DeclsWithTypeItem ==
  {d \in DOMAIN lookup_cache_ : lookup_cache_[d].item.kind \in {"Record", "TypeAlias"}}

\* C7: whenever no record import is in progress (so also at the end of the
\* walk), known_type_decls_ holds exactly the declarations whose lookup
\* result holds a Record or a TypeAlias item.
C7_KnownExactlyImported ==
  (pc # "aborted" /\ NoRecordImportInProgress) =>
    known_type_decls_ = DeclsWithTypeItem

(***************************************************************************)
(* Functions that are skipped.                                             *)
(***************************************************************************)
\* The functions the claim says are skipped without a trace.
SilentlySkipped(d) ==
  /\ DeclTable[d].kind = "Function"
  /\ \/ ~IsFromCurrentTarget(d)
     \/ FunctionInfo(d).deleted
     \/ FunctionInfo(d).is_method /\ FunctionInfo(d).access \in {"private", "protected"}

\* C9: the lookup result of a function that is not from the current target,
\* or is deleted, or is a private or protected method holds no item and no
\* error, whatever its types and whatever became of its record; it adds
\* neither a Func nor an UnsupportedItem to the IR.
C9_SkippedWithoutTrace ==
  /\ \A d \in DOMAIN lookup_cache_ :
       SilentlySkipped(d) =>
         lookup_cache_[d].item.kind = None /\ lookup_cache_[d].errors = <<>>
  /\ \A i \in DOMAIN items :
       items[i].item.kind # "Comment" => ~SilentlySkipped(items[i].from)

(***************************************************************************)
(* Items of other targets.                                                 *)
(***************************************************************************)
\* No emitted item of one of the kinds is of a declaration of another target.
OnlyCurrentTarget(kinds) ==
  \A i \in DOMAIN items :
    items[i].item.kind \in kinds =>
      IsFromCurrentTarget(items[i].from) /\
      (items[i].item.kind # "UnsupportedItem" => items[i].item.owning_target = target_)

\* C10 as stated: no Func, Record or TypeAlias item belongs to a declaration
\* of another target.
C10_NoItemOfOtherTargets ==
  pc = "done" => OnlyCurrentTarget(DeclItemKinds)

\* C10: no Func and no UnsupportedItem belongs to a declaration of another
\* target; Record and TypeAlias items of other targets are emitted, each
\* with the owning target of its declaration.
C10_NoFuncOfOtherTargets ==
  pc = "done" =>
    /\ OnlyCurrentTarget({"Func", "UnsupportedItem"})
    /\ \A i \in DOMAIN items :
         items[i].item.kind \in DeclItemKinds =>
           items[i].item.owning_target =
             GetOwningTarget(IF items[i].item.kind = "Record"
                               THEN Definition(items[i].from) ELSE items[i].from)

\* The record B of target //:b is emitted, its public method bm was looked
\* up and is not, and a method of the current target is.
C10_Witness ==
  /\ pc = "done"
  /\ \E i \in DOMAIN items :
       /\ items[i].from = "B" /\ items[i].item.kind = "Record"
       /\ items[i].item.owning_target = "//:b"
  /\ "bm" \in DOMAIN lookup_cache_ /\ \A i \in DOMAIN items : items[i].from # "bm"
  /\ \E i \in DOMAIN items : items[i].from = "S_m" /\ items[i].item.kind = "Func"

(***************************************************************************)
(* The UnsupportedItems of a declaration.                                  *)
(***************************************************************************)
\* The positions of the UnsupportedItems emitted for declaration d.
UnsupportedItemsOf(d) ==
  {i \in DOMAIN items : items[i].item.kind = "UnsupportedItem" /\ items[i].from = d}

\* C11: for every cached declaration d the number of UnsupportedItems
\* emitted for d is the number of error reasons of its lookup result when d
\* is from the current target and 0 when it is not; each such item carries
\* one of the reasons, the source range of d and its local order, and the
\* IR holds these items.
C11_OneUnsupportedItemPerError ==
  pc = "done" =>
    /\ \A d \in DOMAIN lookup_cache_ :
         /\ Cardinality(UnsupportedItemsOf(d)) =
              (IF GetOwningTarget(d) = target_ THEN Len(lookup_cache_[d].errors) ELSE 0)
         /\ \A i \in UnsupportedItemsOf(d) :
              /\ items[i].range = SourceRange(d)
              /\ items[i].local_order = StatedLocalOrder(items[i])
              /\ items[i].item.message \in Range(lookup_cache_[d].errors)
              /\ ir[i] = items[i].item
    /\ \A i \in DOMAIN items :
         items[i].item.kind = "UnsupportedItem" => items[i].from \in DOMAIN lookup_cache_

\* The record B of target //:b failed with an error reason that is not
\* emitted, and the union U of the current target failed with one that is.
C11_Witness ==
  /\ pc = "done"
  /\ "B" \in DOMAIN lookup_cache_ /\ lookup_cache_["B"].errors # <<>>
  /\ UnsupportedItemsOf("B") = {}
  /\ "U" \in DOMAIN lookup_cache_ /\ Cardinality(UnsupportedItemsOf("U")) = 1

(***************************************************************************)
(* The declarations the walk reaches.                                      *)
(***************************************************************************)
\* Every declaration of the sequence was looked up (by its canonical
\* declaration).
AllLookedUp(decls) ==
  \A i \in DOMAIN decls : Canonical(ast, decls[i]) \in DOMAIN lookup_cache_

\* C12: when Import has emitted the item list it has looked up every
\* top-level declaration, every declaration of a namespace at any depth and
\* every member of every record that ImportRecord imported; declarations
\* that failed are in the cache with their error reasons and the
\* declarations after them were looked up all the same.
C12_EveryDeclarationLookedUp ==
  (run = 1 /\ pc = "done") =>
    /\ AllLookedUp(LexicalDecls(ast, TU))
    /\ \A n \in DeclIds :
         DeclTable[n].kind = "Namespace" => AllLookedUp(LexicalDecls(ast, n))
    /\ \A c \in DOMAIN lookup_cache_ :
         lookup_cache_[c].item.kind = "Record" =>
           AllLookedUp(LexicalDecls(ast, Definition(c)))
    /\ \E c \in DOMAIN lookup_cache_ : lookup_cache_[c].errors # <<>>

(***************************************************************************)
(* The lifetimes of an emitted Func.                                       *)
(***************************************************************************)
\* The function imported on its own gave a Func.
FuncIsEmitted ==
  /\ pc = "imported"
  /\ lookup_cache_[function_decl.decl].item.kind = "Func"

\* The Func of the function imported on its own.
EmittedFunc == lookup_cache_[function_decl.decl].item

\* The lifetime ids on the pointer and reference levels of a mapped type.
LifetimesOf(type) ==
  {type[i].lifetime : i \in {j \in DOMAIN type : type[j].lifetime # 0}}

\* The lifetime ids in the parameter types (with __this) and the return type.
SignatureLifetimes(func) ==
  UNION {LifetimesOf(func.params[i].type) : i \in DOMAIN func.params}
  \cup LifetimesOf(func.return_type)

LifetimeParamIds(func) == {func.lifetime_params[i].id : i \in DOMAIN func.lifetime_params}

RECURSIVE PointerLevels(_, _)
\* The pointer and reference levels of a type that is not a well-known type.
PointerLevels(a, qt) ==
  IF TypeString(qt) \in DOMAIN kWellKnownTypes THEN 0
  ELSE IF Desugared(a, qt)[1].k \in {"Pointer", "LValueRef"}
    THEN 1 + PointerLevels(a, Tail(Desugared(a, qt)))
  ELSE 0

\* The oracle returned exactly one lifetime for each pointer or reference
\* level of the this type, of each parameter type and of the return type.
OneLifetimePerLevel(fd) ==
  fd.info.lifetimes.has =>
    /\ Len(fd.info.lifetimes.this) = (IF fd.info.instance THEN 1 ELSE 0)
    /\ \A i \in DOMAIN fd.info.params :
         Len(fd.info.lifetimes.params[i]) = PointerLevels(ast, fd.info.params[i].type)
    /\ Len(fd.info.lifetimes.ret) = PointerLevels(ast, fd.info.ret)

\* C13 as stated: for every emitted Func (so for every lifetime bundle that
\* passed the assertions of the importer) the lifetime ids in its parameter
\* types, __this included, and its return type are the ids of its
\* lifetime_params.
C13_LifetimeListComplete ==
  FuncIsEmitted => SignatureLifetimes(EmittedFunc) = LifetimeParamIds(EmittedFunc)

\* C13: for every emitted Func whose lifetime bundle holds exactly one
\* lifetime per pointer or reference level of each type, the lifetime ids
\* in its parameter types, __this included, and its return type are the ids
\* of its lifetime_params; with more lifetimes than levels the ids in the
\* types are a subset of them.
C13_CompleteWithOneLifetimePerLevel ==
  FuncIsEmitted =>
    /\ SignatureLifetimes(EmittedFunc) \subseteq LifetimeParamIds(EmittedFunc)
    /\ OneLifetimePerLevel(function_decl) =>
         SignatureLifetimes(EmittedFunc) = LifetimeParamIds(EmittedFunc)

\* The Func of a method with a parameter of two pointer levels, whose
\* bundle holds one lifetime per level and two different lifetimes.
C13_Witness ==
  /\ FuncIsEmitted
  /\ function_decl.info.lifetimes.has /\ function_decl.info.instance
  /\ OneLifetimePerLevel(function_decl)
  /\ \E i \in DOMAIN function_decl.info.params :
       PointerLevels(ast, function_decl.info.params[i].type) = 2
  /\ LifetimeParamIds(EmittedFunc) = OracleIds

(***************************************************************************)
(* The parameters of an emitted Func.                                      *)
(***************************************************************************)
\* The variant of MappedType an outermost level of a C++ type maps to.
StatedVariants(level) ==
  CASE level.k = "Pointer"   -> {"PointerTo"}
    [] level.k = "LValueRef" -> {"LValueReferenceTo"}
    [] level.k = "Builtin"   -> {"Simple", "Void"}
    [] OTHER                 -> {"WithDeclIds"}

\* Parameter p of a Func is formal parameter i of the declaration.
IsFormalParam(p, formal, i) ==
  /\ p.name = (IF formal.name = "" THEN "__param_" \o ToString(i - 1) ELSE formal.name)
  /\ p.type[1].v \in StatedVariants(formal.type[1])
  /\ Len(p.type) = Len(formal.type)

\* C14: an emitted Func of a non-static member function has one parameter
\* more than the declaration: first __this, a non-nullable pointer to the
\* record of the method, then the formal parameters in declaration order;
\* an emitted Func of a static member function or of a free function has
\* exactly the formal parameters and none named __this.
C14_ThisThenFormalParams ==
  FuncIsEmitted =>
    LET formals == function_decl.info.params
        params  == EmittedFunc.params
    IN IF function_decl.info.is_method /\ function_decl.info.instance
         THEN /\ Len(params) = Len(formals) + 1
              /\ params[1].name = "__this"
              /\ params[1].type[1].v = "PointerTo" /\ ~params[1].type[1].nullable
              /\ Len(params[1].type) = 2
              /\ params[1].type[2].v = "WithDeclIds"
              /\ params[1].type[2].decl_id = Canonical(ast, function_decl.info.parent)
              /\ \A i \in DOMAIN formals : IsFormalParam(params[i + 1], formals[i], i)
         ELSE /\ Len(params) = Len(formals)
              /\ \A i \in DOMAIN formals : IsFormalParam(params[i], formals[i], i)
              /\ \A i \in DOMAIN params : params[i].name # "__this"

\* The Func of a non-static method with two formal parameters.
C14_Witness ==
  /\ FuncIsEmitted
  /\ function_decl.info.is_method /\ function_decl.info.instance
  /\ Len(function_decl.info.params) = 2
  /\ Len(EmittedFunc.params) = 3

(***************************************************************************)
(* C15: the label GetOwningTarget returns.                                 *)
(***************************************************************************)
ResourceDirLabel == "//:virtual_clang_resource_dir_target"
BuiltinLabel == "//:builtin"

\* The file's name, less one leading "./", is a key of the header-to-target map.
InHeaderTargetMap(f) == f.name # None /\ f.name \in DOMAIN header_target

RECURSIVE IncludeStackOf(_, _)
\* The files from file up the include stack, nearest first.
IncludeStackOf(files, file) ==
  IF file = InvalidFile THEN <<>>
  ELSE <<file>> \o IncludeStackOf(files, files[file].included_from)

\* The positions in the include stack of the declaration of the files that
\* are in the map.
MappedPositions ==
  {i \in DOMAIN IncludeStackOf(source_manager, decl_location) :
     InHeaderTargetMap(source_manager[IncludeStackOf(source_manager, decl_location)[i]])}

NearestMapped == CHOOSE i \in MappedPositions : \A j \in MappedPositions : i <= j

FileAt(i) == source_manager[IncludeStackOf(source_manager, decl_location)[i]]

PrimaryHeader == source_manager[decl_location]

\* C15 as stated: a primary header in the map gives its mapped label, a
\* declaration in a system header gives the resource-dir label, and a
\* primary header outside the map gives the label of the nearest file up
\* the include stack that is in the map.
C15_MappedSystemNearest ==
  (pc = "owned" /\ decl_location # InvalidFile) =>
    /\ InHeaderTargetMap(PrimaryHeader) =>
         owning_target = header_target[PrimaryHeader.name]
    /\ PrimaryHeader.system => owning_target = ResourceDirLabel
    /\ (~InHeaderTargetMap(PrimaryHeader) /\ MappedPositions # {}) =>
         owning_target = header_target[FileAt(NearestMapped).name]

\* C15 amended: the mapped label is returned for a primary header in the
\* map that is not a system header; a declaration in a system header gives
\* the resource-dir label; a primary header that is neither in the map nor a
\* system header gives the label of the nearest file up the include stack
\* that is in the map when no file up to and including that one is a system
\* header or the built-in buffer.
C15_MappedUnlessSystemFirst ==
  (pc = "owned" /\ decl_location # InvalidFile) =>
    /\ (InHeaderTargetMap(PrimaryHeader) /\ ~PrimaryHeader.system) =>
         owning_target = header_target[PrimaryHeader.name]
    /\ PrimaryHeader.system => owning_target = ResourceDirLabel
    /\ (/\ ~InHeaderTargetMap(PrimaryHeader)
        /\ ~PrimaryHeader.system
        /\ MappedPositions # {}
        /\ \A i \in 1..NearestMapped :
             ~FileAt(i).system /\ FileAt(i).name # None) =>
         owning_target = header_target[FileAt(NearestMapped).name]

\* A textual header whose name keeps a "./" after the first is taken off,
\* included from a textual header included from a header of the map: two
\* steps up the include stack reach the mapped label.
C15_Witness ==
  /\ pc = "owned"
  /\ decl_location # InvalidFile
  /\ ~InHeaderTargetMap(PrimaryHeader) /\ ~PrimaryHeader.system
  /\ PrimaryHeader.dot_slash
  /\ MappedPositions # {}
  /\ NearestMapped = 3
  /\ loop_rounds = 2
  /\ owning_target = header_target[FileAt(3).name]

(***************************************************************************)
(* C20: the label returned when the include stack runs out.                *)
(***************************************************************************)
\* C20: a walk that starts in a non-system header and leaves the include
\* stack at an invalid location, no file on the way being in the map,
\* returns the built-in label; the resource-dir label is returned only at a
\* location in a system header; the walk takes at most as many steps as the
\* include stack is deep.
C20_BuiltinWhenStackRunsOut ==
  /\ pc \in {"get_owning_target", "owned"} =>
       loop_rounds <= Len(IncludeStackOf(source_manager, decl_location))
  /\ pc = "owned" =>
       /\ (/\ decl_location # InvalidFile
           /\ ~PrimaryHeader.system
           /\ source_location = InvalidFile) =>
            owning_target = BuiltinLabel
       /\ owning_target = ResourceDirLabel =>
            (source_location # InvalidFile /\ source_manager[source_location].system)

(***************************************************************************)
(* C16: exit code and output files of the command-line program.            *)
(***************************************************************************)
WrittenByThisRun(path) == files_on_disk[path] \in {"new", "partial"}

\* C16: when main ends without success its exit code is 1 and no output
\* path holds output of this run; exit code 0 is returned only after rs_out
\* and cc_out were both written.
C16_FailureLeavesNoOutput ==
  pc = "exited" =>
    /\ exit_code # "0" =>
         (exit_code = "1" /\ \A p \in OutputPaths : ~WrittenByThisRun(p))
    /\ exit_code = "0" =>
         (files_on_disk["rs_out"] = "new" /\ files_on_disk["cc_out"] = "new")

(***************************************************************************)
(* C17: the provisional entry of a record in known_type_decls_.            *)
(***************************************************************************)
\* The records at translation-unit level that have fields.
RecordsWithFields == {"B", "S", "S_fwd"}

\* A field ConvertType or GetTranslatedIdentifier refuses: a long double or
\* an unnamed bit-field.
FieldCannotBeImported(fd) == fd.type = LongDoubleT \/ fd.name = ""

SomeFieldFails(def) ==
  \E i \in DOMAIN RecordInfo(ast, def).fields :
    FieldCannotBeImported(RecordInfo(ast, def).fields[i])

\* The fields of def whose type is a pointer to def itself are converted to
\* a pointer to the Record of def.
SelfPointersConverted(def, item) ==
  \A i \in DOMAIN RecordInfo(ast, def).fields :
    RecordInfo(ast, def).fields[i].type = Ptr(TagT(def)) =>
      /\ Len(item.fields[i].type) = 2
      /\ item.fields[i].type[1].v = "PointerTo"
      /\ item.fields[i].type[2].decl_id = Canonical(ast, def)
      /\ item.fields[i].type[2].decl_id = item.id

\* The step is ImportRecord on the record c.
ImportsRecord(c) == import_count'[c] = import_count[c] + 1

\* C17: a record whose fields all import leaves ImportRecord in
\* known_type_decls_ with its Record, the fields that point to the record
\* itself converted; a record with a field that fails leaves ImportRecord
\* with the single error "Importing field failed" and known_type_decls_ as
\* it was before, the record not in it.
C17_ProvisionalEntryRolledBack ==
  [][\A c \in RecordsWithFields : ImportsRecord(c) =>
       IF SomeFieldFails(Definition(c))
         THEN /\ Head(stack').result = ErrorResult("Importing field failed")
              /\ known_type_decls_' = known_type_decls_
              /\ Definition(c) \notin known_type_decls_'
         ELSE /\ Head(stack').result.item.kind = "Record"
              /\ Head(stack').result.errors = <<>>
              /\ Definition(c) \in known_type_decls_'
              /\ SelfPointersConverted(Definition(c), Head(stack').result.item)]_vars

\* S with a long double field was imported after B: the import failed, S is
\* not known and B still is.
C17_Witness ==
  /\ ~ast.sfield_ok /\ ast.bfield_ok
  /\ pc = "walk" /\ stack # <<>>
  /\ Head(stack).pending \in {"S", "S_fwd"}
  /\ Head(stack).result = ErrorResult("Importing field failed")
  /\ known_type_decls_ = {"B"}

(***************************************************************************)
(* C18: the members of a record and the methods of a record that failed.   *)
(***************************************************************************)
\* The canonical declarations of the methods of the translation unit.
Methods ==
  {m \in DeclIds : /\ DeclTable[m].kind = "Function"
                   /\ Canonical(ast, m) = m
                   /\ FunctionInfo(m).is_method}

\* The record that owns the method m was looked up.
OwnerLookedUp(m) == Canonical(ast, FunctionInfo(m).parent) \in DOMAIN lookup_cache_

\* The lookup result of the record that owns the method m.
OwnerResult(m) == lookup_cache_[Canonical(ast, FunctionInfo(m).parent)]

\* The records ImportRecord was called on.
RecordsAttempted ==
  {c \in DOMAIN lookup_cache_ : DeclTable[c].kind = "Record" /\ WalksMembers(c)}

\* C18: in the frontend's order, the members of every record ImportRecord
\* was called on are looked up, whatever the outcome, and none before the
\* record's own import; a Func of a method comes with the Record of its
\* owner and carries that Record's id; a method of the current target that
\* is not deleted and not templated and whose owner's import did not give a
\* Record has exactly the error "Couldn't import the parent".
C18_MembersAfterRecordAttempt ==
  run = 1 =>
    /\ \A m \in DOMAIN lookup_cache_ :
         (DeclTable[m].ctx # TU /\ DeclTable[DeclTable[m].ctx].kind = "Record") =>
           import_count[Canonical(ast, DeclTable[m].ctx)] >= 1
    /\ pc = "done" =>
         \A c \in RecordsAttempted :
           Definition(c) # None => AllLookedUp(LexicalDecls(ast, Definition(c)))
    /\ pc = "done" =>
         \A m \in Methods \cap DOMAIN lookup_cache_ :
           (\E i \in DOMAIN ir : ir[i] = lookup_cache_[m].item /\ ir[i].kind = "Func") =>
             /\ OwnerLookedUp(m)
             /\ \E j \in DOMAIN ir : ir[j] = OwnerResult(m).item /\ ir[j].kind = "Record"
             /\ lookup_cache_[m].item.member_func_metadata.record_id = OwnerResult(m).item.id
    /\ pc = "done" =>
         \A m \in Methods :
           (/\ IsFromCurrentTarget(m)
            /\ ~FunctionInfo(m).deleted /\ ~FunctionInfo(m).templated
            /\ OwnerLookedUp(m)
            /\ OwnerResult(m).item.kind # "Record") =>
             /\ m \in DOMAIN lookup_cache_
             /\ lookup_cache_[m].item.kind = "none"
             /\ lookup_cache_[m].errors = <<Message("Couldn't import the parent", "")>>

(***************************************************************************)
(* C19: records without a definition ImportRecord can use.                 *)
(***************************************************************************)
\* The record handed to ImportRecord is only declared, or its definition is
\* not complete or invalid.
LacksCompleteDefinition == record_decl.state \in {"declared", "incomplete", "invalid"}

ImportRecordResult == lookup_cache_[record_decl.decl]

\* C19 as stated: a record declaration without a complete definition, or
\* with an invalid one, gives no item and no error reason whatever its tag
\* kind, in the translation unit or in another record.
C19_UndefinedRecordIsSkipped ==
  (/\ pc = "record_imported"
   /\ LacksCompleteDefinition
   /\ record_decl.ctx_kind \in {"TranslationUnit", "Record"}) =>
    ImportRecordResult = EmptyResult

\* C19 amended: such a declaration gives no item and no error reason when
\* it is a struct or a class in the translation unit, or the injected class
\* name; a record in another record gives "Nested classes are not supported
\* yet" and a union in the translation unit "Unions are not supported yet".
\* known_type_decls_ is left as it was.
C19_UndefinedStructOrClassIsSkipped ==
  (/\ pc = "record_imported"
   /\ LacksCompleteDefinition
   /\ record_decl.ctx_kind \in {"TranslationUnit", "Record"}) =>
    /\ known_type_decls_ = {}
    /\ ImportRecordResult =
         IF record_decl.injected THEN EmptyResult
         ELSE IF record_decl.ctx_kind = "Record"
           THEN ErrorResult("Nested classes are not supported yet")
         ELSE IF record_decl.tag = "union"
           THEN ErrorResult("Unions are not supported yet")
         ELSE EmptyResult

\* A class in the translation unit whose definition is invalid was skipped.
C19_Witness ==
  /\ pc = "record_imported"
  /\ record_decl.state = "invalid" /\ record_decl.tag = "class"
  /\ record_decl.ctx_kind = "TranslationUnit"
  /\ ImportRecordResult = EmptyResult

(***************************************************************************)
(* C21: the order in which ConvertType consumes the lifetimes.             *)
(***************************************************************************)
\* The mapped type has, on each of the n outermost levels, the lifetime the
\* list l holds at the same distance from its back, and no lifetime below.
LevelsTakeFromBack(type, n, l) ==
  /\ Len(type) > n
  /\ \A k \in 1..n :
       /\ type[k].v \in {"PointerTo", "LValueReferenceTo"}
       /\ type[k].lifetime = l[Len(l) - k + 1]
  /\ \A k \in (n + 1)..Len(type) : type[k].lifetime = 0

\* The position of the formal parameter i in the params of the Func.
ParamPosition(i) ==
  IF function_decl.info.is_method /\ function_decl.info.instance THEN i + 1 ELSE i

\* C21: in an emitted Func whose oracle gave lifetimes, the type of every
\* formal parameter and the return type have on level k, counted from the
\* outside, the lifetime at position Len(l) - k + 1 of their list l (for a
\* list as long as the type has levels: l[n-k+1]), each level another
\* position of the list, and a type without pointer or reference level has
\* no lifetime whatever the list holds.
C21_LifetimesConsumedFromBack ==
  (FuncIsEmitted /\ function_decl.info.lifetimes.has) =>
    /\ \A i \in DOMAIN function_decl.info.params :
         LevelsTakeFromBack(EmittedFunc.params[ParamPosition(i)].type,
                            PointerLevels(ast, function_decl.info.params[i].type),
                            function_decl.info.lifetimes.params[i])
    /\ LevelsTakeFromBack(EmittedFunc.return_type,
                          PointerLevels(ast, function_decl.info.ret),
                          function_decl.info.lifetimes.ret)

\* A parameter S** with the lifetimes <<1, 2>>: the outer pointer has
\* lifetime 2 and the inner one lifetime 1.
C21_Witness ==
  /\ FuncIsEmitted
  /\ function_decl.info.lifetimes.has
  /\ \E i \in DOMAIN function_decl.info.params :
       /\ PointerLevels(ast, function_decl.info.params[i].type) = 2
       /\ function_decl.info.lifetimes.params[i] = <<1, 2>>
       /\ EmittedFunc.params[ParamPosition(i)].type[1].lifetime = 2
       /\ EmittedFunc.params[ParamPosition(i)].type[2].lifetime = 1

(***************************************************************************)
(* C22: the declarations of namespaces.                                    *)
(***************************************************************************)
\* The declarations whose context is a namespace.
NamespacedDecls == {d \in DeclIds : ContextKind(DeclTable[d].ctx) = "Namespace"}

\* The names the functions, records and typedefs of namespaces would have
\* in the IR.
NamespacedNames ==
  {FunctionInfo(d).name : d \in {x \in NamespacedDecls : DeclTable[x].kind = "Function"}}
  \cup {RecordInfo(ast, d).name : d \in {x \in NamespacedDecls : DeclTable[x].kind = "Record"}}
  \cup {TypedefInfo(ast, d).name :
          d \in {x \in NamespacedDecls : DeclTable[x].kind = "TypedefName"}}

\* C22: when the walk is done every declaration of a namespace, at any
\* depth, was looked up; the result of a declaration of a namespace is always
\* the one error "Items contained in namespaces are not supported yet"
\* without an item; no Func, Record or TypeAlias of the IR is one of a
\* namespace, and no declaration of a namespace is in known_type_decls_.
C22_NamespacedItemsRefused ==
  /\ pc = "done" => \A d \in NamespacedDecls : Canonical(ast, d) \in DOMAIN lookup_cache_
  /\ \A d \in NamespacedDecls \cap DOMAIN lookup_cache_ :
       lookup_cache_[d] =
         ErrorResult("Items contained in namespaces are not supported yet")
  /\ \A i \in DOMAIN ir :
       ir[i].kind \in {"Func", "Record", "TypeAlias"} =>
         /\ ir[i].name.ident \notin NamespacedNames
         /\ ir[i].id \notin NamespacedDecls
  /\ known_type_decls_ \cap NamespacedDecls = {}

\* The IR is emitted and the record Q of the namespace ns::inner, two
\* namespaces deep, has the error as its result.
C22_Witness ==
  /\ pc = "done"
  /\ ir # <<>>
  /\ DeclTable["in_Q"].ctx = "inner" /\ DeclTable["inner"].ctx = "ns"
  /\ "in_Q" \in DOMAIN lookup_cache_
  /\ lookup_cache_["in_Q"].errors =
       <<Message("Items contained in namespaces are not supported yet", "")>>
  /\ \E i \in DOMAIN ir :
       ir[i].kind = "UnsupportedItem" /\ ir[i].name.ident = DeclTable["in_Q"].qname

(***************************************************************************)
(* C23: the decl ids the types of the IR refer to.                         *)
(***************************************************************************)
\* The decl ids of the WithDeclIds levels of a mapped type.
DeclIdsIn(type) ==
  {type[k].decl_id : k \in {j \in DOMAIN type : type[j].v = "WithDeclIds"}}

\* The decl ids an item refers to in its parameter types, return type, field
\* types and underlying type.
ReferencedDeclIds(item) ==
  UNION {DeclIdsIn(item.params[i].type) : i \in DOMAIN item.params}
  \cup DeclIdsIn(item.return_type)
  \cup UNION {DeclIdsIn(item.fields[i].type) : i \in DOMAIN item.fields}
  \cup DeclIdsIn(item.underlying_type)

\* The ids of the Record and TypeAlias items of the IR.
EmittedTypeIds ==
  {ir[j].id : j \in {i \in DOMAIN ir : ir[i].kind \in {"Record", "TypeAlias"}}}

\* The records whose import was rolled back after a field failed.
RolledBack ==
  {c \in DOMAIN lookup_cache_ :
     lookup_cache_[c] = ErrorResult("Importing field failed")}

\* C23: in the emitted IR every decl id a Func, Record or TypeAlias refers
\* to in a WithDeclIds type is the id of a Record or TypeAlias of the IR,
\* and none is the id of a record whose import was rolled back.
C23_ReferencedTypesAreEmitted ==
  pc = "done" =>
    \A i \in DOMAIN ir :
      ir[i].kind \in {"Func", "Record", "TypeAlias"} =>
        /\ ReferencedDeclIds(ir[i]) \subseteq EmittedTypeIds
        /\ ReferencedDeclIds(ir[i]) \cap RolledBack = {}

\* The record B with an unnamed bit-field was rolled back, and the IR holds
\* the Func f whose parameter refers to the Record of S and the Record of S
\* whose field next refers to itself.
C23_Witness ==
  /\ pc = "done"
  /\ RolledBack # {}
  /\ \E i \in DOMAIN ir :
       /\ ir[i].kind = "Func"
       /\ ReferencedDeclIds(ir[i]) = {Canonical(ast, "S")}
  /\ \E i \in DOMAIN ir :
       /\ ir[i].kind = "Record"
       /\ ir[i].id = Canonical(ast, "S")
       /\ ir[i].id \in ReferencedDeclIds(ir[i])

====
